---- MODULE Spec2Model ----
(***************************************************************************)
(* Model of the OpenCart UI test suite: the element interaction utility    *)
(* (utils/element_util.py), the product and registration page objects      *)
(* (pages/product_page.py, pages/user_registration_page.py) and the        *)
(* browser they drive.  Text is a sequence of characters; a word that      *)
(* holds neither a colon nor white space may stand as one character.       *)
(***************************************************************************)
EXTENDS Integers, Sequences, FiniteSets, TLC

VARIABLES
  \* ---- product page object (pages/product_page.py)
  product_info_map,   \* ProductPage.__product_info_map
  meta_list,          \* texts of the metadata <li> nodes of the page shown
  price_list,         \* texts of the price <li> nodes of the page shown
  ppc,                \* what ran last on the page object; "left" once its page was left
  \* ---- the document in the browser, as the element utility sees it
  present,            \* elements attached to the document
  displayed,          \* elements rendered visible
  value,              \* value[e]: content of input element e
  title,              \* document title
  \* ---- ElementUtil (utils/element_util.py)
  do_flash,           \* ElementUtil.__do_flash
  call,               \* the call running or last run: operation and arguments
  issued,             \* browser commands the call has issued so far
  res,                \* outcome of the call
  upc,                \* position inside the call
  elapsed,            \* polls slept by the wait of the call
  \* ---- the shop and UserRegistrationPage (pages/user_registration_page.py)
  site,               \* the shop as the session sees it: page shown, login, form, accounts
  rpc,                \* position inside register_user
  rargs,              \* arguments of the register_user call running or last run
  rret,               \* what register_user returned
  rerr,               \* the error register_user raised
  rclicks,            \* locators register_user clicked after the submit, in order
  success_text,       \* register_user's local success_text
  reply,              \* how the shop answered the submit of this call
  ncalls,             \* register_user calls made on the page object
  \* ---- the product test's session (tests/test_product_page.py)
  shown,              \* the shop page the browser shows: kind and name
  search_field,       \* content of the search box
  visited,            \* products whose info was extracted earlier in the session
  serr,               \* error of the last step of the session
  \* ---- ConfigReader (utils/config_reader.py) and what it reads
  config_file,        \* configs/config.yaml: absent, or the YAML value it holds
  test_env,           \* the environment variable TEST_ENV
  data,               \* ConfigReader._data
  env,                \* ConfigReader._env
  nloads,             \* runs of _load_config so far in the process
  ngets,              \* calls of get_config so far in the process
  ckey,               \* key of the get_config call made last
  cret,               \* what that call returned
  cerr,               \* the error that call raised
  \* ---- driver_manager (utils/driver_factory/driver_manager.py)
  driver,             \* the browser session created last
  dargs,              \* arguments of the driver_manager call made last
  dret,               \* whether that call returned the session
  derr,               \* the error that call raised
  dmsg,               \* the message of that error
  dorphan,            \* the last call started a session, raised, and left it open
  \* ---- the test run (tests/conftest.py)
  assigned,           \* assigned[i]: the process that runs collected method i
  wstate,             \* per process: method run last, phase, class fixtures, class driver
  sessions,           \* the browser sessions setup_teardown obtained, in order
  reports,            \* reports[i]: the report entry of collected method i
  \* ---- csv_reader (utils/csv_reader.py)
  csv_file,           \* the text of the data file
  rows,               \* what csv_reader returned
  csv_pc,             \* whether the file was read
  \* ---- ElementUtil on lists of handles (utils/element_util.py)
  handles,            \* the texts of the handles of the list, in order
  lcall,              \* the call made last on the list
  lres,               \* its outcome: the error raised and the positions clicked
  \* ---- the end-of-test log line (tests/conftest.py)
  titem,              \* the test that is running: its phase, driver and report
  tlog,               \* per finished test, whether it failed and its end line
  \* ---- the browser's navigation after the click on Continue
  nav,                \* "pending" while the answer to the submit is not yet rendered
  \* ---- the registration test (tests/test_user_registration_page.py)
  clock,              \* the wall clock, in whole seconds
  mailw,              \* per process: whether an iteration runs and when it ends at the earliest
  mails,              \* the addresses the iterations registered with, in order
  \* ---- CommonComponents (pages/common_components.py)
  ccs,                \* the CommonComponents objects: their util and their __dict__
  utils,              \* the ElementUtil objects constructed, by the driver they got
  insts,              \* the Footer, RightColumnLinks and Search objects constructed
  access,             \* the property access made last and what it returned
  firsts,             \* per object and property, what its first access returned
  \* ---- browser options (utils/driver_factory/browser_options_manager.py)
  oargs,              \* arguments of the options call made last
  options_built,      \* the options object it returned
  \* ---- the HTML report (tests/conftest.py)
  html_plugin,        \* whether the pytest-html plugin is installed
  pconf,              \* per process: its phase, option.htmlpath and _latest_html_target
  report_files        \* the report directory: who wrote which file, and when

prodVars == <<product_info_map, meta_list, price_list, ppc>>
domVars == <<present, displayed, value, title>>
utilVars == <<do_flash, call, issued, res, upc, elapsed>>

regVars == <<site, rpc, rargs, rret, rerr, rclicks, success_text, reply, ncalls>>

sessVars == <<shown, search_field, visited, serr>>

confVars == <<config_file, test_env, data, env, nloads, ngets, ckey, cret, cerr>>

drvVars == <<driver, dargs, dret, derr, dmsg, dorphan>>

\* the harness around the page objects
runVars == <<assigned, wstate, sessions, reports>>

csvVars == <<csv_file, rows, csv_pc>>

listVars == <<handles, lcall, lres>>

logVars == <<titem, tlog>>

mailVars == <<clock, mailw, mails>>

compVars == <<ccs, utils, insts, access, firsts>>

optVars == <<oargs, options_built>>

reportVars == <<html_plugin, pconf, report_files>>

moreVars == <<logVars, nav, mailVars, compVars, optVars, reportVars>>

harnessVars == <<confVars, drvVars, runVars, csvVars, listVars, moreVars>>

\* the page objects, the element utility and the browser document
pageVars == <<prodVars, domVars, utilVars, regVars, sessVars>>

vars == <<pageVars, harnessVars>>

outsideProd == <<domVars, utilVars, regVars, sessVars, harnessVars>>
outsideUtil == <<prodVars, regVars, sessVars, harnessVars>>
outsideReg == <<prodVars, domVars, utilVars, sessVars, harnessVars>>
outsideSess == <<domVars, utilVars, regVars, harnessVars>>

-----------------------------------------------------------------------------
(* Bounds *)

MaxChars == 4    \* most characters in one drawn list of text nodes, all nodes together
MaxLines == 2    \* most text nodes in one drawn list
MaxText == 1     \* longest text typed into a field or found in it, and longest title
MaxTimeout == 2  \* longest timeout of a wait, in polls
MaxCalls == 2    \* most register_user calls made on one page object

-----------------------------------------------------------------------------
(* Text: python str operations used by the page objects *)

COLON == ":"
SPACE == " "
Chars == {"a", SPACE, COLON}

EmptyMap == [k \in {} |-> <<>>]

\* all texts of at most n characters
RECURSIVE TextsUpTo(_)
TextsUpTo(n) ==
  IF n = 0 THEN {<<>>}
  ELSE LET shorter == TextsUpTo(n - 1)
       IN shorter \cup {Append(t, c) : t \in {s \in shorter : Len(s) = n - 1}, c \in Chars}

\* all lists of at most n texts that hold at most c characters together
RECURSIVE ListsWithin(_, _)
ListsWithin(n, c) ==
  IF n = 0 THEN {<<>>}
  ELSE {<<>>} \cup UNION { {<<t>> \o l : l \in ListsWithin(n - 1, c - Len(t))} : t \in TextsUpTo(c) }

\* python: s.split(":")  -- one part more than there are colons
RECURSIVE split(_)
split(s) ==
  IF s = <<>> THEN << <<>> >>
  ELSE LET rest == split(Tail(s))
       IN IF Head(s) = COLON
            THEN << <<>> >> \o rest
            ELSE << <<Head(s)>> \o Head(rest) >> \o Tail(rest)

RECURSIVE lstrip(_)
lstrip(s) ==
  IF s # <<>> /\ Head(s) = SPACE THEN lstrip(Tail(s)) ELSE s

RECURSIVE rstrip(_)
rstrip(s) ==
  IF s # <<>> /\ s[Len(s)] = SPACE THEN rstrip(SubSeq(s, 1, Len(s) - 1)) ELSE s

\* python: s.strip()
strip(s) == rstrip(lstrip(s))

\* python: d[key] = value
SetItem(d, key, val) ==
  [k \in DOMAIN d \cup {key} |-> IF k = key THEN val ELSE d[k]]

-----------------------------------------------------------------------------
(* ProductPage: extraction of the product information *)

\* MetaEntry with the text split at its first colon only (str.split(":", 1))
MetaEntryFirstColon(map, meta) ==
  LET cs == {i \in DOMAIN meta : meta[i] = COLON}
  IN IF cs = {} THEN map
     ELSE LET p == CHOOSE i \in cs : \A j \in cs : i <= j
          IN SetItem(map, strip(SubSeq(meta, 1, p - 1)), strip(SubSeq(meta, p + 1, Len(meta))))

\* MetaEntry that stores the two parts as they are, without strip()
MetaEntryNoStrip(map, meta) ==
  LET parts == split(meta)
  IN IF Len(parts) = 2 THEN SetItem(map, parts[1], parts[2]) ELSE map

\* product_page.py:201-205, the body of the loop over meta_list
MetaEntry(map, meta) ==
  LET parts == split(meta)
  IN IF Len(parts) = 2
       THEN SetItem(map, strip(parts[1]), strip(parts[2]))
       ELSE map

\* product_page.py:199-206
RECURSIVE get_product_meta_data(_, _)
get_product_meta_data(map, metas) ==
  IF metas = <<>> THEN map
  ELSE get_product_meta_data(MetaEntry(map, Head(metas)), Tail(metas))

\* product_page.py:217-231
get_product_price_data(map, prices) ==
  IF prices = <<>> THEN map
  ELSE LET m1 == SetItem(map, <<"price">>, strip(prices[1]))
       IN IF Len(prices) > 1
            THEN LET parts == split(prices[2])
                 IN IF Len(parts) = 2
                      THEN SetItem(m1, strip(parts[1]), strip(parts[2]))
                      ELSE m1
            ELSE m1

-----------------------------------------------------------------------------
(* The document and the browser commands the element utility issues *)

Elems == {1, 2}

\* A locator is named by the elements it selects once they are attached:
\* {} selects nothing on any page, {1, 2} may select two elements.
Locators == SUBSET Elems

KeyChars == {"a", "b"}

RECURSIVE TextsOver(_, _)
TextsOver(C, n) ==
  IF n = 0 THEN {<<>>}
  ELSE LET shorter == TextsOver(C, n - 1)
       IN shorter \cup {Append(t, c) : t \in {s \in shorter : Len(s) = n - 1}, c \in C}

FieldTexts == TextsOver(KeyChars, MaxText)

\* python None passed where a str is expected
NoneVal == <<"None">>

\* python: not value
Falsy(v) == v = <<>> \/ v = NoneVal

RECURSIVE InDocumentOrder(_)
InDocumentOrder(S) ==
  IF S = {} THEN <<>>
  ELSE LET first == CHOOSE e \in S : \A f \in S : e <= f
       IN <<first>> \o InDocumentOrder(S \ {first})

\* driver.find_elements(*locator): the attached elements the locator selects
find_elements(L) == InDocumentOrder(L \cap present)

NoError == "none"
Outcome(err, elems, count) == [err |-> err, elems |-> elems, count |-> count, text |-> <<>>]
TextOutcome(t) == [err |-> NoError, elems |-> <<>>, count |-> -1, text |-> t]
NoOutcome == Outcome(NoError, <<>>, -1)

LocatorRef(L) == [kind |-> "locator", loc |-> L]
ElementRef(e) == [kind |-> "element", el |-> e]
Refs == {LocatorRef(L) : L \in Locators} \cup {ElementRef(e) : e \in Elems}

\* element.clear()
clear(old) == <<>>

\* element.send_keys(v): the keys are typed after what the field holds
send_keys(old, v) == old \o v

-----------------------------------------------------------------------------
(* ElementUtil: lookups and text entry *)

\* element_util.py:137-142.  The result carries the commands issued.
get_element(L) ==
  LET found == find_elements(L)
  IN IF found = <<>>
       THEN [out |-> Outcome("NoSuchElementException", <<>>, -1),
             issued |-> {"find_element"}]
       ELSE [out |-> Outcome(NoError, <<found[1]>>, -1),
             issued |-> {"find_element", "tag_name", "text"}
                          \cup (IF do_flash THEN {"execute_script"} ELSE {})]

\* get_elements that fails like find_element when nothing is selected
get_elements_Raising(L) ==
  LET found == find_elements(L)
  IN IF found = <<>>
       THEN [out |-> Outcome("NoSuchElementException", <<>>, -1), issued |-> {"find_elements"}]
       ELSE [out |-> Outcome(NoError, found, -1), issued |-> {"find_elements"}]

\* element_util.py:158-161
get_elements(L) ==
  [out |-> Outcome(NoError, find_elements(L), -1), issued |-> {"find_elements"}]

\* element_util.py:177-179
get_elements_count(L) ==
  LET got == get_elements(L)
  IN IF got.out.err # NoError THEN got
     ELSE [out |-> Outcome(NoError, <<>>, Len(got.out.elems)), issued |-> got.issued]

\* the field is typed into without being cleared
TypedNoClear(old, v) == send_keys(old, v)

\* element_util.py:296-298: what the field holds after clear() and send_keys(value)
Typed(old, v) == send_keys(clear(old), v)

\* element_util.py:289-299: the part of enter_text after the check of value
EnterTextInto(ref, v) ==
  LET got == IF ref.kind = "locator"
               THEN get_element(ref.loc)
               ELSE [out |-> Outcome(NoError, <<ref.el>>, -1), issued |-> {}]
  IN IF got.out.err # NoError
       THEN [out |-> got.out, issued |-> got.issued, value |-> value]
     ELSE LET e == got.out.elems[1]
          IN IF e \notin present
               THEN [out |-> Outcome("StaleElementReferenceException", <<>>, -1),
                     issued |-> got.issued \cup {"clear"}, value |-> value]
               ELSE [out |-> Outcome(NoError, <<e>>, -1),
                     issued |-> got.issued \cup {"clear", "send_keys"},
                     value |-> [value EXCEPT ![e] = Typed(value[e], v)]]

\* enter_text that checks value only when the element could not be used
enter_text_LateCheck(ref, v) ==
  LET done == EnterTextInto(ref, IF v = NoneVal THEN <<>> ELSE v)
  IN IF Falsy(v)
       THEN [out |-> Outcome("FrameworkException", <<>>, -1),
             issued |-> done.issued, value |-> done.value]
       ELSE done

\* element_util.py:285-299
enter_text(ref, v) ==
  IF Falsy(v)
    THEN [out |-> Outcome("FrameworkException", <<>>, -1), issued |-> {}, value |-> value]
    ELSE EnterTextInto(ref, v)

\* a locator tuple whose selector the browser rejects, such as (By.XPATH, "//[")
InvalidLocatorRef == [kind |-> "invalid_locator", loc |-> {}]

DisplayRefs == Refs \cup {InvalidLocatorRef}

\* python bool as a result
BoolOutcome(b) == TextOutcome(IF b THEN <<"True">> ELSE <<"False">>)

\* the exceptions the except clause of is_element_displayed names
Handled == {"NoSuchElementException", "StaleElementReferenceException"}

\* element_util.py:358-366: the body of the try block; driver.find_element
\* raises InvalidSelectorException for a selector the browser rejects
DisplayedTry(ref) ==
  LET got == CASE ref.kind = "locator" -> get_element(ref.loc)
               [] ref.kind = "invalid_locator" ->
                    [out |-> Outcome("InvalidSelectorException", <<>>, -1),
                     issued |-> {"find_element"}]
               [] OTHER -> [out |-> Outcome(NoError, <<ref.el>>, -1), issued |-> {}]
  IN IF got.out.err # NoError THEN got
     ELSE LET e == got.out.elems[1]
          IN [out |-> IF e \notin present
                        THEN Outcome("StaleElementReferenceException", <<>>, -1)
                        ELSE BoolOutcome(e \in displayed),
              issued |-> got.issued \cup {"is_displayed"}]

\* element_util.py:357-369
is_element_displayed(ref) ==
  LET tried == DisplayedTry(ref)
  IN IF tried.out.err \in Handled
       THEN [out |-> BoolOutcome(FALSE), issued |-> tried.issued]
       ELSE tried

-----------------------------------------------------------------------------
(* Element specification: calls of the utility on a document that changes  *)
(* between the calls                                                       *)

\* A call: the operation, its arguments, the elements attached when it began
\* (dom) and whether it repeats the call before it (again).
NoCall ==
  [op |-> "none", ref |-> LocatorRef({}), val |-> <<>>, timeout |-> 0,
   dom |-> {}, again |-> FALSE]
Call(op, ref, v, again) ==
  [op |-> op, ref |-> ref, val |-> v, timeout |-> 0, dom |-> present, again |-> again]
WaitCall(op, ref, v, T) ==
  [op |-> op, ref |-> ref, val |-> v, timeout |-> T, dom |-> present, again |-> FALSE]

Finish(op, ref, v, r) ==
  /\ call' = Call(op, ref, v,
                  /\ call.op = op /\ call.ref = ref /\ call.val = v
                  /\ res.err = NoError)
  /\ res' = r.out
  /\ issued' = r.issued

GetElement ==
  \E L \in Locators :
    /\ Finish("get_element", LocatorRef(L), <<>>, get_element(L))
    /\ UNCHANGED <<outsideUtil, domVars, do_flash, upc, elapsed>>

GetElements ==
  \E L \in Locators :
    /\ Finish("get_elements", LocatorRef(L), <<>>, get_elements(L))
    /\ UNCHANGED <<outsideUtil, domVars, do_flash, upc, elapsed>>

GetElementsCount ==
  \E L \in Locators :
    /\ Finish("get_elements_count", LocatorRef(L), <<>>, get_elements_count(L))
    /\ UNCHANGED <<outsideUtil, domVars, do_flash, upc, elapsed>>

EnterText ==
  \E ref \in Refs, v \in FieldTexts \cup {NoneVal} :
    LET r == enter_text(ref, v)
    IN /\ Finish("enter_text", ref, v, r)
       /\ value' = r.value
       /\ UNCHANGED <<outsideUtil, present, displayed, title, do_flash, upc, elapsed>>

IsElementDisplayed ==
  \E ref \in DisplayRefs :
    /\ Finish("is_element_displayed", ref, <<>>, is_element_displayed(ref))
    /\ UNCHANGED <<outsideUtil, domVars, do_flash, upc, elapsed>>

\* the page attaches or detaches an element, or shows or hides one, between
\* two calls
DomUpdate ==
  \E e \in Elems :
    /\ \/ /\ present' = IF e \in present THEN present \ {e} ELSE present \cup {e}
          /\ UNCHANGED displayed
       \/ /\ displayed' = IF e \in displayed THEN displayed \ {e} ELSE displayed \cup {e}
          /\ UNCHANGED present
    /\ UNCHANGED <<outsideUtil, value, title, utilVars>>

-----------------------------------------------------------------------------
(* ElementUtil: explicit waits.  A wait polls its condition; between two   *)
(* browser commands the page may attach, detach, show or hide elements and *)
(* change its title.                                                       *)

Titles == TextsOver(KeyChars, MaxText)
Timeouts == 0 .. MaxTimeout

\* python: fragment in text
Contains(fragment, text) ==
  \E i \in 1 .. Len(text) + 1 :
    /\ i + Len(fragment) - 1 <= Len(text)
    /\ SubSeq(text, i, i + Len(fragment) - 1) = fragment

\* expected_conditions.visibility_of_element_located(locator), one poll:
\* the first element selected when it is displayed, nothing otherwise
visibility_of_element_located(L) ==
  LET found == find_elements(L)
  IN IF found # <<>> /\ found[1] \in displayed THEN <<found[1]>> ELSE <<>>

\* expected_conditions.title_contains(fragment), one poll
title_contains(fragment) == Contains(fragment, title)

Idle == upc \in {"idle", "done"}

\* element_util.py:665-666
WaitVisibleStart ==
  \E L \in Locators, T \in Timeouts :
    /\ Idle
    /\ call' = WaitCall("wait_for_element_to_be_visible", LocatorRef(L), <<>>, T)
    /\ upc' = "visible_poll"
    /\ elapsed' = 0
    /\ res' = NoOutcome
    /\ issued' = {}
    /\ UNCHANGED <<outsideUtil, domVars, do_flash>>

\* element_util.py:668 and 673-675: one round of WebDriverWait.until
WaitVisiblePoll ==
  /\ upc = "visible_poll"
  /\ LET hit == visibility_of_element_located(call.ref.loc)
     IN IF hit # <<>>
          THEN /\ res' = Outcome(NoError, hit, -1)
               /\ upc' = "visible_log"
               /\ UNCHANGED elapsed
          ELSE IF elapsed < call.timeout
                 THEN /\ elapsed' = elapsed + 1
                      /\ UNCHANGED <<res, upc>>
                 ELSE /\ res' = Outcome("FrameworkException", <<>>, -1)
                      /\ upc' = "done"
                      /\ UNCHANGED elapsed
  /\ issued' = issued \cup {"find_element", "is_displayed"}
  /\ UNCHANGED <<outsideUtil, domVars, do_flash, call>>

\* element_util.py:669: the log line reads element.tag_name and element.text
\* inside the try block that catches TimeoutException only
WaitVisibleLog ==
  /\ upc = "visible_log"
  /\ issued' = issued \cup {"tag_name", "text"}
  /\ IF res.elems[1] \in present
       THEN /\ upc' = IF do_flash THEN "visible_flash" ELSE "done"
            /\ UNCHANGED res
       ELSE /\ upc' = "done"
            /\ res' = Outcome("StaleElementReferenceException", <<>>, -1)
  /\ UNCHANGED <<outsideUtil, domVars, do_flash, call, elapsed>>

\* element_util.py:670-672: flash_element runs scripts on the element
WaitVisibleFlash ==
  /\ upc = "visible_flash"
  /\ issued' = issued \cup {"execute_script"}
  /\ upc' = "done"
  /\ IF res.elems[1] \in present
       THEN UNCHANGED res
       ELSE res' = Outcome("StaleElementReferenceException", <<>>, -1)
  /\ UNCHANGED <<outsideUtil, domVars, do_flash, call, elapsed>>

\* element_util.py:696-697
WaitTitleStart ==
  \E F \in Titles, T \in Timeouts :
    /\ Idle
    /\ call' = WaitCall("wait_for_title_contains", LocatorRef({}), F, T)
    /\ upc' = "title_poll"
    /\ elapsed' = 0
    /\ res' = NoOutcome
    /\ issued' = {}
    /\ UNCHANGED <<outsideUtil, domVars, do_flash>>

\* element_util.py:699 and 703-705: one round of WebDriverWait.until
WaitTitlePoll ==
  /\ upc = "title_poll"
  /\ IF title_contains(call.val)
       THEN /\ upc' = "title_read"
            /\ UNCHANGED <<res, elapsed>>
       ELSE IF elapsed < call.timeout
              THEN /\ elapsed' = elapsed + 1
                   /\ UNCHANGED <<res, upc>>
              ELSE /\ res' = TextOutcome(NoneVal)
                   /\ upc' = "done"
                   /\ UNCHANGED elapsed
  /\ issued' = issued \cup {"title"}
  /\ UNCHANGED <<outsideUtil, domVars, do_flash, call>>

\* element_util.py:700-702: the title is read again and returned
WaitTitleRead ==
  /\ upc = "title_read"
  /\ res' = TextOutcome(title)
  /\ upc' = "done"
  /\ issued' = issued \cup {"title"}
  /\ UNCHANGED <<outsideUtil, domVars, do_flash, call, elapsed>>

\* the page attaches, detaches, shows or hides an element
DomChange ==
  \E e \in Elems :
    /\ \/ /\ present' = IF e \in present THEN present \ {e} ELSE present \cup {e}
          /\ UNCHANGED displayed
       \/ /\ displayed' = IF e \in displayed THEN displayed \ {e} ELSE displayed \cup {e}
          /\ UNCHANGED present
    /\ UNCHANGED <<outsideUtil, value, title, utilVars>>

\* the page changes its title
TitleChange ==
  \E t \in Titles :
    /\ t # title
    /\ title' = t
    /\ UNCHANGED <<outsideUtil, present, displayed, value, utilVars>>

-----------------------------------------------------------------------------
(* The shop's registration pages and UserRegistrationPage.register_user.  *)
(* The browser loads pages with the default strategy: a click returns when *)
(* the page is loaded, provided the browser saw the navigation start while *)
(* it handled the click (RegisterSubmit); otherwise the click returns with *)
(* the old page displayed and the answer is rendered later (RegisterClick, *)
(* Navigate).                                                              *)

T(w) == <<w>>

\* app_constants.py:78
USER_REGISTER_SUCCESS_MESG ==
  <<"Your", SPACE, "Account", SPACE, "Has", SPACE, "Been", SPACE, "Created!">>

FormFields == {"first_name", "last_name", "email", "telephone", "password", "confirm_password"}

EmptyForm == [f \in FormFields |-> <<>>]

\* the registration form as the Register link serves it
FreshForm == [fields |-> EmptyForm, agree |-> FALSE, newsletter |-> "2"]

Pages == {"register", "success", "logout", "other", "blank"}

\* text of the element "#content h1" of each page
Heading(pg) ==
  CASE pg = "register" -> <<"Register", SPACE, "Account">>
    [] pg = "success"  -> USER_REGISTER_SUCCESS_MESG
    [] pg = "logout"   -> <<"Account", SPACE, "Logout">>
    [] pg = "other"    -> <<"Your", SPACE, "Account", SPACE, "Has", SPACE, "Been", SPACE, "Created">>
    [] OTHER           -> <<>>

\* user_registration_page.py:66-77: is the element of the locator on the page
PageHas(st, loc) ==
  CASE loc \in {"header", "success_message"} -> st.page # "blank"
    [] loc = "logout_link" -> st.logged_in /\ st.page # "blank"
    [] loc = "register_link" -> ~st.logged_in /\ st.page # "blank"
    [] OTHER -> st.page = "register"

SiteErr(e, st) == [err |-> e, site |-> st]

\* ElementUtil.click_element(locator), element_util.py:321-325, on the shop:
\* a link loads its page, a radio button is chosen, a check box is toggled
click_element(st, loc) ==
  IF ~PageHas(st, loc) THEN SiteErr("NoSuchElementException", st)
  ELSE CASE loc = "logout_link" ->
              SiteErr(NoError, [st EXCEPT !.page = "logout", !.logged_in = FALSE])
         [] loc = "register_link" ->
              SiteErr(NoError, [st EXCEPT !.page = "register", !.form = FreshForm])
         [] loc = "agree_checkbox" ->
              SiteErr(NoError, [st EXCEPT !.form.agree = ~st.form.agree])
         [] loc \in {"subscribe_1", "subscribe_2"} ->
              SiteErr(NoError, [st EXCEPT !.form.newsletter =
                                            IF loc = "subscribe_1" THEN "1" ELSE "2"])
         [] OTHER -> SiteErr(NoError, st)

\* ElementUtil.wait_for_element_to_be_visible on a loaded page of the shop
wait_visible(st, loc) ==
  IF PageHas(st, loc) THEN NoError ELSE "FrameworkException"

\* python: c.lower()
lower_char(c) ==
  CASE c = "Y" -> "y" [] c = "E" -> "e" [] c = "S" -> "s"
    [] c = "N" -> "n" [] c = "O" -> "o"
    [] c = "Chrome" -> "chrome"
    [] c = "Firefox" -> "firefox"
    [] c = "EDGE" -> "edge"
    [] c = "LATEST" -> "latest"
    [] c = "Default" -> "default"
    [] c = "Auto" -> "auto"
    [] OTHER -> c

\* python: s.lower()
lower(s) == [i \in DOMAIN s |-> lower_char(s[i])]

\* user_registration_page.py:161-168
do_subscribe(subscribe) ==
  IF lower(strip(subscribe)) = <<"y", "e", "s">> THEN "subscribe_1" ELSE "subscribe_2"

\* user_registration_page.py:173-186: the enter_text calls, in order
EnteredFields == <<"last_name", "email", "telephone", "password", "confirm_password">>

ArgOf(args, field) == IF field = "confirm_password" THEN args.password ELSE args[field]

\* the enter_text calls for the fields from position i on
RECURSIVE EnterFrom(_, _, _)
EnterFrom(st, args, i) ==
  IF i > Len(EnteredFields) THEN SiteErr(NoError, st)
  ELSE LET f == EnteredFields[i]
           v == ArgOf(args, f)
       IN IF Falsy(v) THEN SiteErr("FrameworkException", st)
          ELSE IF ~PageHas(st, f) THEN SiteErr("NoSuchElementException", st)
          ELSE EnterFrom([st EXCEPT !.form.fields[f] = Typed(st.form.fields[f], v)], args, i + 1)

\* the clicks in loc, in order, up to the first that fails
RECURSIVE ClickAll(_, _)
ClickAll(st, locs) ==
  IF locs = <<>> THEN SiteErr(NoError, st)
  ELSE LET r == click_element(st, Head(locs))
       IN IF r.err # NoError THEN r ELSE ClickAll(r.site, Tail(locs))

\* user_registration_page.py:160-192: the form is filled
FillForm(st, args) ==
  IF wait_visible(st, "first_name") # NoError THEN SiteErr("FrameworkException", st)
  ELSE LET typed == [st EXCEPT !.form.fields["first_name"] =
                                 send_keys(st.form.fields["first_name"], args.first_name)]
           entered == EnterFrom(typed, args, 1)
       IN IF entered.err # NoError THEN entered
          ELSE ClickAll(entered.site, <<do_subscribe(args.subscribe), "agree_checkbox">>)

\* the shop's answers to a submitted form: the account is created only for
\* an e-mail address without an account and with the agreement given
Replies(st) ==
  {"rejected", "blank"}
    \cup (IF st.form.fields["email"] \notin st.accounts /\ st.form.agree
            THEN {"created", "other"} ELSE {})

\* the shop after it answered the submit
Submitted(st, r) ==
  CASE r = "created" ->
         [st EXCEPT !.page = "success", !.logged_in = TRUE,
                    !.accounts = st.accounts \cup {st.form.fields["email"]}]
    [] r = "other" ->
         [st EXCEPT !.page = "other", !.logged_in = TRUE,
                    !.accounts = st.accounts \cup {st.form.fields["email"]}]
    [] r = "rejected" -> st
    [] OTHER -> [st EXCEPT !.page = "blank"]

\* the success branch clicks Logout only
SuccessClicksLogoutOnly == <<"logout_link">>

\* user_registration_page.py:205-209: the clicks of the success branch
SuccessClicks == <<"logout_link", "register_link">>

\* every message counts as the success message
IsSuccessAlways(text) == TRUE

\* user_registration_page.py:202
IsSuccess(text) == text = USER_REGISTER_SUCCESS_MESG

FirstNames == {T("Fa"), T("Fb")}
LastNames == {T("La"), <<>>}
Emails == {T("e1"), T("e2")}
Subscribes == {<<"y", "e", "s">>, <<SPACE, "Y", "E", "S">>, <<"n", "o">>}

RegArgs ==
  [first_name : FirstNames, last_name : LastNames, email : Emails,
   telephone : {T("555")}, password : {T("pw")}, subscribe : Subscribes]

NoArgs ==
  [first_name |-> <<>>, last_name |-> <<>>, email |-> <<>>,
   telephone |-> <<>>, password |-> <<>>, subscribe |-> <<>>]

\* register_user returned or raised
RegEnd(ret, err) ==
  /\ rpc' = "done"
  /\ rret' = ret
  /\ rerr' = err

\* user_registration_page.py:157-192
RegisterFill ==
  \E args \in RegArgs :
    /\ rpc \in {"idle", "done"}
    /\ ncalls < MaxCalls
    /\ ncalls' = ncalls + 1
    /\ rargs' = args
    /\ rclicks' = <<>>
    /\ success_text' = NoneVal
    /\ reply' = "none"
    /\ LET r == FillForm(site, args)
       IN /\ site' = r.site
          /\ IF r.err = NoError
               THEN rpc' = "filled" /\ rret' = "none" /\ rerr' = NoError
               ELSE RegEnd("none", r.err)
    /\ UNCHANGED outsideReg

\* user_registration_page.py:194-195: Continue is clicked and the shop answers
RegisterSubmit ==
  /\ rpc = "filled"
  /\ nav = "none"
  /\ \E r \in Replies(site) :
       /\ reply' = r
       /\ site' = Submitted(site, r)
  /\ rpc' = "submitted"
  /\ UNCHANGED <<rargs, rret, rerr, rclicks, success_text, ncalls, outsideReg>>

\* user_registration_page.py:194-195: Continue is clicked and the click
\* returns while the browser has not yet rendered the shop's answer; the
\* form page stays displayed until it does
RegisterClick ==
  /\ rpc = "filled"
  /\ nav = "none"
  /\ \E r \in Replies(site) : reply' = r
  /\ nav' = "pending"
  /\ rpc' = "submitted"
  /\ UNCHANGED <<site, rargs, rret, rerr, rclicks, success_text, ncalls>>
  /\ UNCHANGED <<prodVars, domVars, utilVars, sessVars>>
  /\ UNCHANGED <<confVars, drvVars, runVars, csvVars, listVars, logVars, mailVars, compVars, optVars, reportVars>>

\* the browser renders the answer to the submit
Navigate ==
  /\ nav = "pending"
  /\ site' = Submitted(site, reply)
  /\ nav' = "none"
  /\ UNCHANGED <<rpc, rargs, rret, rerr, rclicks, success_text, reply, ncalls>>
  /\ UNCHANGED <<prodVars, domVars, utilVars, sessVars>>
  /\ UNCHANGED <<confVars, drvVars, runVars, csvVars, listVars, logVars, mailVars, compVars, optVars, reportVars>>

\* user_registration_page.py:197-217
RegisterVerify ==
  /\ rpc = "submitted"
  /\ IF wait_visible(site, "success_message") # NoError
       THEN /\ RegEnd("none", "FrameworkException")
            /\ UNCHANGED <<site, rclicks, success_text>>
       ELSE LET text == strip(Heading(site.page))
            IN /\ success_text' = text
               /\ IF IsSuccess(text)
                    THEN LET r == ClickAll(site, SuccessClicks)
                         IN /\ site' = r.site
                            /\ rclicks' = SuccessClicks
                            /\ IF r.err # NoError THEN RegEnd("none", r.err)
                               ELSE IF wait_visible(r.site, "first_name") # NoError
                                      THEN RegEnd("none", "FrameworkException")
                                      ELSE RegEnd("True", NoError)
                    ELSE /\ RegEnd("False", NoError)
                         /\ UNCHANGED <<site, rclicks>>
  /\ UNCHANGED <<rargs, reply, ncalls, outsideReg>>

-----------------------------------------------------------------------------
(* Parsing specification: the two extractions applied to drawn text lists *)

GetProductMetaData ==
  /\ ppc = "new"
  /\ product_info_map' = get_product_meta_data(product_info_map, meta_list)
  /\ ppc' = "meta"
  /\ UNCHANGED <<meta_list, price_list, outsideProd>>

GetProductPriceData ==
  /\ ppc = "new"
  /\ product_info_map' = get_product_price_data(product_info_map, price_list)
  /\ ppc' = "price"
  /\ UNCHANGED <<meta_list, price_list, outsideProd>>

-----------------------------------------------------------------------------
(* The product test's session: search_product, select_product and         *)
(* get_product_complete_info against the shop's catalogue                  *)

\* words joined by single spaces
RECURSIVE Words(_)
Words(ws) ==
  IF Len(ws) <= 1 THEN ws ELSE <<Head(ws), SPACE>> \o Words(Tail(ws))

\* "label: value" as the page prints it
Printed(label, val) == label \o <<COLON, SPACE>> \o val

\* test_data.py:18-26: the products of PRODUCT_TEST_DATA
Products == {"MacBook Pro", "MacBook Air", "Samsung Galaxy Tab 10.1"}

\* test_data.py:19-25: the search terms, and the empty term
Terms == {T("macbook"), T("samsung"), T("hello"), <<>>}

\* the links of the result page of a search term
SearchResults(term) ==
  CASE term = T("macbook") -> {"MacBook Pro", "MacBook Air"}
    [] term = T("samsung") -> {"Samsung Galaxy Tab 10.1"}
    [] OTHER -> {}

\* text of "#content h1" on the page of a product
ProductHeader(name) ==
  CASE name = "MacBook Pro" -> Words(<<"MacBook", "Pro">>)
    [] name = "MacBook Air" -> Words(<<"MacBook", "Air">>)
    [] OTHER -> Words(<<"Samsung", "Galaxy", "Tab", "10.1">>)

\* texts of ".col-sm-4 > ul:nth-of-type(1) > li" on the page of a product
ProductMeta(name) ==
  CASE name = "MacBook Pro" ->
         << Printed(T("Brand"), T("Apple")),
            Printed(Words(<<"Product", "Code">>), Words(<<"Product", "18">>)),
            Printed(Words(<<"Reward", "Points">>), T("800")),
            Printed(T("Availability"), Words(<<"Out", "Of", "Stock">>)) >>
    [] name = "MacBook Air" ->
         << Printed(T("Brand"), T("Apple")),
            Printed(Words(<<"Product", "Code">>), Words(<<"Product", "17">>)),
            Printed(Words(<<"Reward", "Points">>), T("800")),
            Printed(T("Availability"), Words(<<"Out", "Of", "Stock">>)) >>
    [] OTHER ->
         << Printed(Words(<<"Product", "Code">>), T("SAM1")),
            Printed(Words(<<"Reward", "Points">>), T("1000")),
            Printed(T("Availability"), T("Pre-Order")) >>

\* texts of ".col-sm-4 > ul:nth-of-type(2) > li" on the page of a product
ProductPrice(name) ==
  CASE name = "MacBook Pro" ->
         << T("$2,000.00"), Printed(Words(<<"Ex", "Tax">>), T("$2,000.00")) >>
    [] name = "MacBook Air" ->
         << T("$1,202.00"), Printed(Words(<<"Ex", "Tax">>), T("$1,000.00")) >>
    [] OTHER ->
         << T("$241.99"), Printed(Words(<<"Ex", "Tax">>), T("$199.99")) >>

\* app_constants.py:83-110
PRODUCTS_INFO ==
  [name \in Products |->
    CASE name = "MacBook Pro" ->
           (T("Brand") :> T("Apple"))
             @@ (T("Availability") :> Words(<<"Out", "Of", "Stock">>))
             @@ (T("productHeader") :> Words(<<"MacBook", "Pro">>))
             @@ (T("price") :> T("$2,000.00"))
             @@ (Words(<<"Ex", "Tax">>) :> T("$2,000.00"))
             @@ (Words(<<"Product", "Code">>) :> Words(<<"Product", "18">>))
             @@ (Words(<<"Reward", "Points">>) :> T("800"))
      [] name = "MacBook Air" ->
           (T("Brand") :> T("Apple"))
             @@ (T("Availability") :> Words(<<"Out", "Of", "Stock">>))
             @@ (T("productHeader") :> Words(<<"MacBook", "Air">>))
             @@ (T("price") :> T("$1,202.00"))
             @@ (Words(<<"Ex", "Tax">>) :> T("$1,000.00"))
             @@ (Words(<<"Product", "Code">>) :> Words(<<"Product", "17">>))
             @@ (Words(<<"Reward", "Points">>) :> T("800"))
      [] OTHER ->
           (T("Availability") :> T("Pre-Order"))
             @@ (T("productHeader") :> Words(<<"Samsung", "Galaxy", "Tab", "10.1">>))
             @@ (T("price") :> T("$241.99"))
             @@ (Words(<<"Ex", "Tax">>) :> T("$199.99"))
             @@ (Words(<<"Product", "Code">>) :> T("SAM1"))
             @@ (Words(<<"Reward", "Points">>) :> T("1000"))]

Shown(kind, name) == [kind |-> kind, name |-> name]

\* the page object keeps the map of the page object made before it
InheritedInfoMap(old) == old

\* product_page.py:97: a new ProductPage starts with an empty map
NewInfoMap(old) == EmptyMap

\* product_page.py:180-188
get_product_complete_info(map, header, metas, prices) ==
  get_product_price_data(
    get_product_meta_data(SetItem(map, T("productHeader"), header), metas),
    prices)

\* common_components.py:321-328
SearchProduct ==
  \E term \in Terms :
    /\ IF Falsy(term)
         THEN /\ serr' = "FrameworkException"
              /\ UNCHANGED <<shown, search_field, ppc>>
         ELSE /\ serr' = NoError
              /\ search_field' = Typed(search_field, term)
              /\ shown' = Shown("search", term)
              /\ ppc' = "left"
    /\ UNCHANGED <<product_info_map, meta_list, price_list, visited, outsideSess>>

\* search_result_page.py:135-141
SelectProduct ==
  \E name \in Products :
    /\ IF shown.kind = "search" /\ name \in SearchResults(shown.name)
         THEN /\ serr' = NoError
              /\ shown' = Shown("product", name)
              /\ product_info_map' = NewInfoMap(product_info_map)
              /\ meta_list' = <<>>
              /\ price_list' = <<>>
              /\ ppc' = "new"
         ELSE /\ serr' = "FrameworkException"
              /\ UNCHANGED <<shown, prodVars>>
    /\ UNCHANGED <<search_field, visited, outsideSess>>

\* product_page.py:180-188, on the page object select_product returned last
GetProductCompleteInfo ==
  /\ shown.kind = "product"
  /\ meta_list' = ProductMeta(shown.name)
  /\ price_list' = ProductPrice(shown.name)
  /\ product_info_map' =
       get_product_complete_info(product_info_map, ProductHeader(shown.name),
                                 ProductMeta(shown.name), ProductPrice(shown.name))
  /\ ppc' = "info"
  /\ visited' = visited \cup {shown.name}
  /\ serr' = NoError
  /\ UNCHANGED <<shown, search_field, outsideSess>>

-----------------------------------------------------------------------------
(* ConfigReader: the configuration file, TEST_ENV and the cached snapshot. *)
(* A YAML value is null, a string or a mapping.                            *)

MaxGets == 3
MaxLoads == 2

Null == [type |-> "null"]
Str(s) == [type |-> "str", s |-> s]
Map(items) == [type |-> "map", items |-> items]

\* configs/config.yaml does not exist
Missing == [type |-> "missing"]

\* python: d.get(key) on a mapping
Get(d, key) == IF key \in DOMAIN d.items THEN d.items[key] ELSE Null

\* the values the key 'remote' may hold in an environment's section
RemoteValues == {Map("remote_url" :> Str("http://grid")), Null}

\* the sections of an environment: no mapping at all, or a mapping with or
\* without the key 'remote'
Sections ==
  {Null, Map(EmptyMap)} \cup {Map("remote" :> r) : r \in RemoteValues \ {Null}}

EnvNames == {"qa", "uat"}

\* the environments config.yaml may have a section for
FileEnvs == {"qa"}

\* the contents config.yaml may have
ConfigFiles ==
  {Missing, Null}
    \cup {Map(f) : f \in UNION {[E -> Sections] : E \in SUBSET FileEnvs}}

TestEnvs == {"unset"} \cup EnvNames

ConfigKeys == {"remote", "headless", "incognito"}

\* the class attributes of ConfigReader with the outcome of a call
ConfState(d, e, n, ret, err) ==
  [data |-> d, env |-> e, nloads |-> n, ret |-> ret, err |-> err]

\* config_reader.py:76-87
load_config(st) ==
  LET e == IF test_env = "unset" THEN "qa" ELSE test_env
      started == ConfState(st.data, Str(e), st.nloads + 1, Null, NoError)
  IN IF config_file = Missing
       THEN [started EXCEPT !.err = "FileNotFoundError"]
     ELSE IF config_file = Null
       THEN [started EXCEPT !.err = "TypeError"]
     ELSE IF e \notin DOMAIN config_file.items
       THEN [started EXCEPT !.err = "KeyError"]
     ELSE LET section == config_file.items[e]
          IN IF section.type # "map"
               THEN [started EXCEPT !.data = section, !.err = "AttributeError"]
               ELSE [started EXCEPT !.data = section]

\* get_config that loads the configuration at every call
get_config_Reloading(st, key) ==
  LET loaded == load_config(st)
  IN IF loaded.err # NoError THEN loaded
     ELSE [loaded EXCEPT !.ret = Get(loaded.data, key)]

\* config_reader.py:112-125
get_config(st, key) ==
  LET loaded == IF st.data = Null THEN load_config(st)
                ELSE [st EXCEPT !.ret = Null, !.err = NoError]
  IN IF loaded.err # NoError THEN loaded
     ELSE [loaded EXCEPT !.ret = Get(loaded.data, key)]

\* the class attributes as they stand
Conf == ConfState(data, env, nloads, Null, NoError)

\* ConfigReader.get_config(key) is called
GetConfig ==
  \E key \in ConfigKeys :
    /\ ngets < MaxGets
    /\ data = Null => nloads < MaxLoads
    /\ ngets' = ngets + 1
    /\ ckey' = key
    /\ LET r == get_config(Conf, key)
       IN /\ data' = r.data
          /\ env' = r.env
          /\ nloads' = r.nloads
          /\ cret' = r.ret
          /\ cerr' = r.err
    /\ UNCHANGED <<config_file, test_env, drvVars, runVars, csvVars, listVars, pageVars, moreVars>>

\* config.yaml is edited, created or removed while the process runs
FileChange ==
  \E f \in ConfigFiles :
    /\ f # config_file
    /\ config_file' = f
    /\ UNCHANGED <<test_env, data, env, nloads, ngets, ckey, cret, cerr, drvVars, runVars, csvVars, listVars, pageVars, moreVars>>

\* TEST_ENV is set or unset while the process runs
EnvChange ==
  \E e \in TestEnvs :
    /\ e # test_env
    /\ test_env' = e
    /\ UNCHANGED <<config_file, data, env, nloads, ngets, ckey, cret, cerr, drvVars, runVars, csvVars, listVars, pageVars, moreVars>>

-----------------------------------------------------------------------------
(* driver_manager: the browser session factory *)

\* the browser names the tests may pass, as written in the configuration
\* or on the command line
Browsers ==
  { <<"chrome">>, <<SPACE, "Chrome", SPACE>>, <<"Firefox">>, <<"EDGE">>,
    <<"safari">>, <<"chrome", SPACE, "edge">>, <<>> }

\* driver_manager.py:104, 111, 118: the cases of the match statement
Supported == { <<"chrome">>, <<"firefox">>, <<"edge">> }

Cookies == {"session_cookie"}

\* what starting a browser may give: no session, or a session whose profile
\* holds some cookies and whose window has its default size; a session
\* remembers in profile the cookies it started with; fails names the command
\* the session answers with a WebDriverException, if any
Starts ==
  [ok : {FALSE}, cookies : {{}}, fails : {"nothing"}]
    \cup [ok : {TRUE}, cookies : SUBSET Cookies,
          fails : {"nothing", "maximize_window", "delete_all_cookies"}]

NoDriver ==
  [kind |-> <<>>, remote |-> FALSE, maximized |-> FALSE, cookies |-> {},
   profile |-> {}, commands |-> <<>>]

NoDriverArgs == [browser |-> NoneVal, remote |-> FALSE]

\* webdriver.Chrome / Firefox / Edge / Remote returned a session
NewDriver(kind, remote, start) ==
  [kind |-> kind, remote |-> remote, maximized |-> FALSE,
   cookies |-> start.cookies, profile |-> start.cookies, commands |-> <<>>]

\* driver.maximize_window()
maximize_window(d) ==
  [d EXCEPT !.maximized = TRUE, !.commands = Append(@, "maximize_window")]

\* driver.delete_all_cookies()
delete_all_cookies(d) ==
  [d EXCEPT !.cookies = {}, !.commands = Append(@, "delete_all_cookies")]

\* the session is returned with its cookies kept
PrepareKeepingCookies(d) == maximize_window(d)

\* driver_manager.py:129-131
Prepare(d) == delete_all_cookies(maximize_window(d))

\* driver_manager.py:127: the message of the FrameworkException
UnsupportedMessage(browser) ==
  <<"Unsupported browser type: ">> \o browser
    \o <<". Supported browsers are: ", "Chrome", ", ", "Firefox", ", ", "Edge">>

DriverOutcome(conf, d, ret, err, msg) ==
  [conf |-> conf, driver |-> d, ret |-> ret, err |-> err, msg |-> msg,
   created |-> IF ret THEN d ELSE NoDriver]

\* driver_manager.py:129-132: a command of the session raised; nothing
\* catches it and nothing quits the session that was started
PrepareFailed(outcome, d) == [outcome EXCEPT !.created = d]

\* driver_manager.py:129-135: the started session is prepared and returned
PrepareAndReturn(conf, d, fails) ==
  IF fails = "maximize_window"
    THEN PrepareFailed(DriverOutcome(conf, driver, FALSE, "WebDriverException", <<>>), d)
  ELSE IF fails = "delete_all_cookies"
    THEN PrepareFailed(DriverOutcome(conf, driver, FALSE, "WebDriverException", <<>>),
                       maximize_window(d))
  ELSE DriverOutcome(conf, Prepare(d), TRUE, NoError, <<>>)

\* browser_options_manager.py:130-134 (188-192, 246-250): the two
\* get_config calls of chrome_options, firefox_options and edge_options
options(conf) ==
  LET headless == get_config(conf, "headless")
  IN IF headless.err # NoError THEN headless
     ELSE get_config(headless, "incognito")

\* driver_manager.py:103-135, with the remote URL already read
match_browser(conf, browser, remote, remote_url, start) ==
  LET kind == lower(strip(browser))
  IN IF kind \in Supported
       THEN LET opts == options(conf)
            IN IF opts.err # NoError
                 THEN DriverOutcome(opts, driver, FALSE, opts.err, <<>>)
               ELSE IF (remote /\ remote_url = Null) \/ ~start.ok
                 THEN DriverOutcome(opts, driver, FALSE, "WebDriverException", <<>>)
               ELSE PrepareAndReturn(opts, NewDriver(kind, remote, start), start.fails)
       ELSE DriverOutcome(conf, driver, FALSE, "FrameworkException",
                          UnsupportedMessage(browser))

\* driver_manager.py:97-135
driver_manager(conf, browser, remote, start) ==
  IF ~remote THEN match_browser(conf, browser, remote, Null, start)
  ELSE LET section == get_config(conf, "remote")
       IN IF section.err # NoError
            THEN DriverOutcome(section, driver, FALSE, section.err, <<>>)
          ELSE IF section.ret = Null
            THEN DriverOutcome(section, driver, FALSE, "AttributeError", <<>>)
          ELSE match_browser(section, browser, remote,
                             Get(section.ret, "remote_url"), start)

\* driver_manager(browser, remote, version, test_name) is called
DriverManager ==
  \E browser \in Browsers, remote \in BOOLEAN, start \in Starts :
    \E r \in {driver_manager(Conf, browser, remote, start)} :
       /\ data = Null => nloads < MaxLoads
       /\ dargs' = [browser |-> browser, remote |-> remote]
       /\ driver' = r.driver
       /\ dret' = r.ret
       /\ derr' = r.err
       /\ dmsg' = r.msg
       /\ dorphan' = (r.created # NoDriver /\ ~r.ret)
       /\ data' = r.conf.data
       /\ env' = r.conf.env
       /\ nloads' = r.conf.nloads
       /\ UNCHANGED <<config_file, test_env, ngets, ckey, cret, cerr, runVars, csvVars, listVars, pageVars, moreVars>>

-----------------------------------------------------------------------------
(* The test run: pytest runs the collected test methods in collection      *)
(* order; with the parallel plugin each worker process runs, in that       *)
(* order, the methods sent to it.  Class-scoped fixtures are set up by the *)
(* first method of the class a process runs and finalized in the teardown  *)
(* of the last one it runs.                                                *)

Workers == {1, 2}

\* tests/test_login_page.py, tests/test_account_page.py: methods as collected
TestItems ==
  << [cls |-> "TestLoginPage", name |-> "test_login_page_title"],
     [cls |-> "TestLoginPage", name |-> "test_login"],
     [cls |-> "TestAccountPage", name |-> "test_account_page_title"],
     [cls |-> "TestAccountPage", name |-> "test_logout_link_exists"] >>

ItemIds == DOMAIN TestItems

ClassFixtures == {"setup_teardown", "setup_login_page", "setup_account_page"}

\* conftest.py:125, 147 and the usefixtures marks of the test classes: the
\* fixtures a class asks for, each after the fixture it depends on
FixturesOf(cls) ==
  IF cls = "TestAccountPage"
    THEN <<"setup_teardown", "setup_login_page", "setup_account_page">>
    ELSE <<"setup_teardown", "setup_login_page">>

NoFixtures == [f \in ClassFixtures |-> "unset"]

\* a report entry: the outcome of each phase, the session the method ran
\* against, and for a failed phase the driver attribute of the class then
\* (0: none) and whether the session could deliver a screenshot; shots
\* counts the images embedded and fail_text tells whether item._fail_text
\* was stashed
NoReport ==
  [setup |-> "none", call |-> "none", teardown |-> "none",
   session |-> 0, drv |-> 0, png |-> FALSE, shots |-> 0, fail_text |-> FALSE]

\* the phase when of the method ended with outcome
Phase(rep, when, outcome, drv, png) ==
  LET r == CASE when = "setup" -> [rep EXCEPT !.setup = outcome]
             [] when = "call" -> [rep EXCEPT !.call = outcome]
             [] OTHER -> [rep EXCEPT !.teardown = outcome]
  IN IF outcome = "failed" THEN [r EXCEPT !.drv = drv, !.png = png] ELSE r

IdleWorker == [pos |-> 0, phase |-> "idle", fix |-> NoFixtures, driver |-> 0]

\* the method a process runs after the method at position p
NextOf(w, p) ==
  LET later == {i \in ItemIds : i > p /\ assigned[i] = w}
  IN IF later = {} THEN 0 ELSE CHOOSE i \in later : \A j \in later : i <= j

\* the class scope ends in this process after the method at position p
ClassScopeEnds(w, p) ==
  NextOf(w, p) = 0 \/ TestItems[NextOf(w, p)].cls # TestItems[p].cls

\* the fixtures in fs are set up in order: one that was set up is kept, one
\* that raised raises again, a new one succeeds or raises as outs says
RECURSIVE SetUpFixtures(_, _, _)
SetUpFixtures(fs, fix, outs) ==
  IF fs = <<>> THEN [fix |-> fix, outcome |-> "passed"]
  ELSE LET f == Head(fs)
           now == IF fix[f] = "unset" THEN outs[f] ELSE fix[f]
           after == [fix EXCEPT ![f] = now]
       IN IF now = "failed" THEN [fix |-> after, outcome |-> "failed"]
          ELSE SetUpFixtures(Tail(fs), after, outs)

\* conftest.py:111-115: the session driver_manager returned
NewSession(cls, w) == [cls |-> cls, worker |-> w, quits |-> 0, open |-> TRUE]

\* the teardown of setup_teardown leaves the session open
QuitSkipped(s) == s

\* conftest.py:119: driver.quit()
Quit(s) == [s EXCEPT !.quits = @ + 1, !.open = FALSE]

\* the hook looks at failures of the call phase only
ReportedCallOnly(when) == when = "call"

\* conftest.py:302: the phases whose failure the hook handles
Reported(when) == when \in {"setup", "call"}

\* conftest.py:298-341: pytest_runtest_makereport on the report of a phase;
\* drv is the driver attribute of the test class, 0 when it has none, and
\* png tells whether get_screenshot_as_png delivers
makereport(rep, when, outcome, drv, png) ==
  IF ~Reported(when) \/ outcome # "failed" THEN rep
  ELSE IF drv = 0 THEN rep
  ELSE [rep EXCEPT !.shots = IF png THEN @ + 1 ELSE @, !.fail_text = TRUE]

Outcomes == {"passed", "failed"}

\* the setup phase of the next method of process w
RunSetup(w) ==
  /\ wstate[w].phase = "idle"
  /\ NextOf(w, wstate[w].pos) # 0
  /\ \E outs \in [ClassFixtures -> {"ok", "failed"}], png \in BOOLEAN :
       LET i == NextOf(w, wstate[w].pos)
           cls == TestItems[i].cls
           made == SetUpFixtures(FixturesOf(cls), wstate[w].fix, outs)
           created == wstate[w].fix["setup_teardown"] = "unset"
                        /\ made.fix["setup_teardown"] = "ok"
           drv == IF created THEN Len(sessions) + 1 ELSE wstate[w].driver
       IN /\ sessions' = IF created THEN Append(sessions, NewSession(cls, w))
                         ELSE sessions
          /\ wstate' = [wstate EXCEPT ![w] =
                          [pos |-> i,
                           phase |-> IF made.outcome = "passed" THEN "call"
                                     ELSE "teardown",
                           fix |-> made.fix, driver |-> drv]]
          /\ reports' = [reports EXCEPT ![i] =
                           makereport(Phase(@, "setup", made.outcome, drv, png),
                                      "setup", made.outcome, drv, png)]
  /\ UNCHANGED <<assigned, pageVars, confVars, drvVars, csvVars, listVars, moreVars>>

\* the test method starts to run against the session of its class
RunCallStart(w) ==
  /\ wstate[w].phase = "call"
  /\ wstate' = [wstate EXCEPT ![w].phase = "calling"]
  /\ reports' = [reports EXCEPT ![wstate[w].pos].session = wstate[w].driver]
  /\ UNCHANGED <<assigned, sessions, pageVars, confVars, drvVars, csvVars, listVars, moreVars>>

\* the test method returns or raises
RunCallEnd(w) ==
  /\ wstate[w].phase = "calling"
  /\ \E outcome \in Outcomes, png \in BOOLEAN :
       reports' = [reports EXCEPT ![wstate[w].pos] =
                     makereport(Phase(@, "call", outcome, wstate[w].driver, png),
                                "call", outcome, wstate[w].driver, png)]
  /\ wstate' = [wstate EXCEPT ![w].phase = "teardown"]
  /\ UNCHANGED <<assigned, sessions, pageVars, confVars, drvVars, csvVars, listVars, moreVars>>

\* the teardown phase: at the end of the class scope the class fixtures are
\* finalized, conftest.py:117-119
RunTeardown(w) ==
  /\ wstate[w].phase = "teardown"
  /\ LET i == wstate[w].pos
         ends == ClassScopeEnds(w, i)
         quits == ends /\ wstate[w].fix["setup_teardown"] = "ok"
     IN /\ sessions' = IF quits
                         THEN [sessions EXCEPT ![wstate[w].driver] = Quit(@)]
                         ELSE sessions
        /\ wstate' = [wstate EXCEPT ![w] =
                        [pos |-> i,
                         phase |-> IF NextOf(w, i) = 0 THEN "done" ELSE "idle",
                         fix |-> IF ends THEN NoFixtures ELSE wstate[w].fix,
                         driver |-> IF ends THEN 0 ELSE wstate[w].driver]]
        /\ reports' = [reports EXCEPT ![i] =
                         makereport(Phase(@, "teardown", "passed", wstate[w].driver, FALSE),
                                    "teardown", "passed", wstate[w].driver, FALSE)]
  /\ UNCHANGED <<assigned, pageVars, confVars, drvVars, csvVars, listVars, moreVars>>

-----------------------------------------------------------------------------
(* log_test_start_and_end: the function-scoped autouse fixture that writes *)
(* the start and end lines of a test, and the hook that stashes the        *)
(* failure text it reads                                                   *)

MaxTests == 3

\* conftest.py:305-313: how the hook resolves the driver of a test: from a
\* driver fixture of the test function, from the driver attribute a class
\* fixture attached, or not at all
ItemKinds == {"funcargs", "instance", "none"}

IdleItem ==
  [kind |-> "none", phase |-> "idle", drv |-> 0, logging |-> FALSE, rep |-> NoReport]

\* conftest.py:208: the result the end line names
EndLine(rep) == IF rep.fail_text THEN "FAILED" ELSE "PASSED"

\* fixtures of a wider scope are set up before the function-scoped ones and
\* autouse fixtures before the others of their scope: log_test_start_and_end
\* runs after the class fixtures and before a driver fixture of the function
LogFixtureRuns(kind, ok) == kind = "instance" => ok

\* the setup phase of a test; ok tells whether its browser fixture succeeds
LogSetup ==
  /\ titem.phase = "idle"
  /\ Len(tlog) < MaxTests
  /\ \E kind \in ItemKinds, ok \in BOOLEAN, png \in BOOLEAN :
       LET outcome == IF kind = "none" \/ ok THEN "passed" ELSE "failed"
           drv == IF kind # "none" /\ ok THEN 1 ELSE 0
       IN titem' = [kind |-> kind,
                    phase |-> IF outcome = "passed" THEN "call" ELSE "teardown",
                    drv |-> drv,
                    logging |-> LogFixtureRuns(kind, ok),
                    rep |-> makereport(Phase(NoReport, "setup", outcome, drv, png),
                                       "setup", outcome, drv, png)]
  /\ UNCHANGED <<tlog, nav, mailVars, compVars, optVars, reportVars, pageVars, confVars, drvVars, runVars, csvVars, listVars>>

\* the call phase: the test function returns or raises
LogCall ==
  /\ titem.phase = "call"
  /\ \E outcome \in Outcomes, png \in BOOLEAN :
       titem' = [titem EXCEPT
                   !.phase = "teardown",
                   !.rep = makereport(Phase(@, "call", outcome, titem.drv, png),
                                      "call", outcome, titem.drv, png)]
  /\ UNCHANGED <<tlog, nav, mailVars, compVars, optVars, reportVars, pageVars, confVars, drvVars, runVars, csvVars, listVars>>

\* conftest.py:205-213: the teardown of log_test_start_and_end, when it was
\* set up, writes the end line
LogTeardown ==
  /\ titem.phase = "teardown"
  /\ tlog' = Append(tlog,
                [kind |-> titem.kind,
                 drv |-> titem.drv,
                 failed |-> "failed" \in {titem.rep.setup, titem.rep.call},
                 line |-> IF titem.logging THEN EndLine(titem.rep) ELSE "none"])
  /\ titem' = IdleItem
  /\ UNCHANGED <<nav, mailVars, compVars, optVars, reportVars, pageVars, confVars, drvVars, runVars, csvVars, listVars>>

-----------------------------------------------------------------------------
(* test_user_new_registration: every iteration asks get_random_email for   *)
(* its address; the iterations of a run are spread over the processes      *)

MaxClock == 5
MaxIterations == 3

\* test_user_registration_page.py:20: time.sleep(4)
SleepSeconds == 4

IdleMailer == [busy |-> FALSE, until |-> 0]

\* test_user_registration_page.py:10: the address for the time t
get_random_email(t) == <<"tester", t, "@gmail.com">>

\* test_user_registration_page.py:19-20: an iteration starts in process w;
\* register_user takes took seconds and the sleep follows when the
\* assertion on its result holds
Register(w) ==
  /\ ~mailw[w].busy
  /\ Len(mails) < MaxIterations
  /\ \E took \in 0 .. 1, passed \in BOOLEAN :
       mailw' = [mailw EXCEPT ![w] =
                   [busy |-> TRUE,
                    until |-> clock + took + (IF passed THEN SleepSeconds ELSE 0)]]
  /\ mails' = Append(mails, [worker |-> w, email |-> get_random_email(clock)])
  /\ UNCHANGED <<clock, logVars, nav, compVars, optVars, reportVars, pageVars, confVars, drvVars, runVars, csvVars, listVars>>

\* the iteration of process w is over
RegisterEnd(w) ==
  /\ mailw[w].busy
  /\ clock >= mailw[w].until
  /\ mailw' = [mailw EXCEPT ![w] = IdleMailer]
  /\ UNCHANGED <<clock, mails, logVars, nav, compVars, optVars, reportVars, pageVars, confVars, drvVars, runVars, csvVars, listVars>>

\* a second passes
Tick ==
  /\ clock < MaxClock
  /\ clock' = clock + 1
  /\ UNCHANGED <<mailw, mails, logVars, nav, compVars, optVars, reportVars, pageVars, confVars, drvVars, runVars, csvVars, listVars>>

-----------------------------------------------------------------------------
(* CommonComponents: three cached properties over one ElementUtil.  An     *)
(* object is named by its position in the sequence of the objects of its   *)
(* class that were constructed.                                            *)

MaxComponents == 6

\* conftest.py:115: the sessions a CommonComponents object is constructed for
Drivers == {1, 2}

\* common_components.py:94, 105, 116
Properties == {"footer", "right_column_links", "search"}

\* common_components.py:103, 114, 125: the class each property constructs
ClassOf(prop) ==
  CASE prop = "footer" -> "Footer"
    [] prop = "right_column_links" -> "RightColumnLinks"
    [] OTHER -> "Search"

\* the instance __dict__ of a new object holds no cached value
NoCache == [prop \in Properties |-> 0]

NoAccess == [obj |-> 0, prop |-> "none", ret |-> 0]

\* the property is a plain property: every access constructs the component
property_get(cc, prop, fresh) == [cache |-> cc.cache, made |-> TRUE, ret |-> fresh]

\* functools.cached_property.__get__: the value the instance __dict__ holds,
\* or else the value the method returns, stored there; fresh is the object
\* the method would construct
cached_property_get(cc, prop, fresh) ==
  IF cc.cache[prop] # 0
    THEN [cache |-> cc.cache, made |-> FALSE, ret |-> cc.cache[prop]]
    ELSE [cache |-> [cc.cache EXCEPT ![prop] = fresh], made |-> TRUE, ret |-> fresh]

\* common_components.py:83-92: CommonComponents(driver)
NewCommonComponents ==
  /\ Len(ccs) < Cardinality(Drivers)
  /\ utils' = Append(utils, [driver |-> Len(ccs) + 1])
  /\ ccs' = Append(ccs, [driver |-> Len(ccs) + 1, util |-> Len(utils) + 1,
                         cache |-> NoCache])
  /\ firsts' = Append(firsts, NoCache)
  /\ UNCHANGED <<insts, access>>
  /\ UNCHANGED <<logVars, nav, mailVars, optVars, reportVars, pageVars, confVars, drvVars, runVars, csvVars, listVars>>

\* common_components.py:94-125: obj.footer, obj.right_column_links or
\* obj.search is read
AccessProperty ==
  \E o \in DOMAIN ccs, prop \in Properties :
    LET r == cached_property_get(ccs[o], prop, Len(insts) + 1)
    IN /\ r.made => Len(insts) < MaxComponents
       /\ ccs' = [ccs EXCEPT ![o].cache = r.cache]
       /\ insts' = IF r.made
                     THEN Append(insts, [cls |-> ClassOf(prop), owner |-> o,
                                         driver |-> ccs[o].driver, util |-> ccs[o].util])
                     ELSE insts
       /\ access' = [obj |-> o, prop |-> prop, ret |-> r.ret]
       /\ firsts' = IF firsts[o][prop] = 0
                      THEN [firsts EXCEPT ![o][prop] = r.ret] ELSE firsts
       /\ UNCHANGED utils
       /\ UNCHANGED <<logVars, nav, mailVars, optVars, reportVars, pageVars, confVars, drvVars, runVars, csvVars, listVars>>

-----------------------------------------------------------------------------
(* chrome_options, firefox_options, edge_options: the options object a     *)
(* session is started with                                                 *)

\* the versions a run may ask for (conftest.py:75, --browser_version)
Versions ==
  { <<"latest">>, <<"LATEST">>, <<"Default">>, <<"Auto">>, <<>>,
    <<"120.0">>, <<SPACE, "latest">> }

TestNames == {<<"TestLoginPage">>, <<"TestAccountPage">>}

\* browser_options_manager.py:142, 200, 258
SpecialVersions == { <<"default">>, <<"latest">>, <<"auto">>, <<>> }

\* version is compared as it is written
IsExplicitCaseSensitive(version) == version \notin SpecialVersions

\* browser_options_manager.py:142, 200, 258
IsExplicit(version) == lower(version) \notin SpecialVersions

\* ChromeOptions(), FirefoxOptions(), EdgeOptions(): no arguments, no
\* version, no capability set by the caller; selenoid holds the dictionary
\* set under 'selenoid:options', if one was set
NewOptions(kind) ==
  [kind |-> kind, arguments |-> <<>>, browserName |-> NoneVal,
   browser_version |-> NoneVal, selenoid |-> {}]

NoOptions == NewOptions("none")

NoOptionArgs == [kind |-> NoneVal, remote |-> FALSE, version |-> NoneVal]

\* options.add_argument(arg)
add_argument(o, flag, arg) ==
  IF flag THEN [o EXCEPT !.arguments = Append(@, arg)] ELSE o

\* browser_options_manager.py:147-157 (205-215, 263-273): the dictionary
\* set under 'selenoid:options', by the entries that depend on the test
selenoid_options(test_name) ==
  [enableVNC |-> TRUE, enableVideo |-> TRUE,
   videoName |-> test_name \o <<"_video.mp4">>, name |-> test_name]

\* browser_options_manager.py:138-158 (196-216, 254-274): if remote
remote_capabilities(o, name, remote, version, test_name) ==
  IF ~remote THEN o
  ELSE LET named == [o EXCEPT !.browserName = <<name>>]
           versioned == IF IsExplicit(version)
                          THEN [named EXCEPT !.browser_version = version]
                          ELSE named
       IN [versioned EXCEPT !.selenoid = {selenoid_options(test_name)}]

\* browser_options_manager.py:100-161
chrome_options(remote, version, test_name, headless, incognito) ==
  remote_capabilities(
    add_argument(add_argument(NewOptions("chrome"), headless, "--headless"),
                 incognito, "--incognito"),
    "chrome", remote, version, test_name)

\* browser_options_manager.py:165-219
firefox_options(remote, version, test_name, headless, incognito) ==
  remote_capabilities(
    add_argument(add_argument(NewOptions("firefox"), headless, "--headless"),
                 incognito, "-private-window"),
    "firefox", remote, version, test_name)

\* browser_options_manager.py:223-278
edge_options(remote, version, test_name, headless, incognito) ==
  remote_capabilities(
    add_argument(add_argument(NewOptions("edge"), headless, "--headless"),
                 incognito, "-inprivate"),
    "edge", remote, version, test_name)

\* one of the three functions is called; headless and incognito are the
\* truth values of the two configuration entries
BuildOptions ==
  \E kind \in Supported, remote \in BOOLEAN, version \in Versions,
     test_name \in TestNames, headless \in BOOLEAN, incognito \in BOOLEAN :
    /\ oargs' = [kind |-> kind, remote |-> remote, version |-> version]
    /\ options_built' = CASE kind = <<"chrome">> ->
                     chrome_options(remote, version, test_name, headless, incognito)
                 [] kind = <<"firefox">> ->
                     firefox_options(remote, version, test_name, headless, incognito)
                 [] OTHER ->
                     edge_options(remote, version, test_name, headless, incognito)
    /\ UNCHANGED <<logVars, nav, mailVars, compVars, reportVars, pageVars, confVars, drvVars, runVars, csvVars, listVars>>

-----------------------------------------------------------------------------
(* pytest_configure and pytest_unconfigure: the timestamped HTML report    *)
(* and its copy latest.html, in a run of a controller process and worker   *)
(* processes.  The controller is configured first; a worker is started     *)
(* with the controller's options and has workerinput; the report plugin    *)
(* writes the report in the controller when the session finishes, after    *)
(* the workers have finished.                                              *)

Controller == 0

Processes == {Controller} \cup Workers

NewProcess ==
  [phase |-> "new", htmlpath |-> "none", latest |-> "none", set_path |-> FALSE]

\* dir: the reports folder exists; stamped: the timestamped report exists; tried_by: the processes that
\* called shutil.copyfile; latest_by: those whose copy wrote latest.html;
\* early: a copy was tried while the stamped file did not exist
NoFiles ==
  [dir |-> FALSE, stamped |-> FALSE, latest_by |-> {}, tried_by |-> {},
   early |-> FALSE]

\* every process counts as the controller
is_controller_Always(p) == TRUE

\* conftest.py:261-263, 362: the process has no workerinput
is_controller(p) == p = Controller

\* conftest.py:265-294: pytest_configure in process p, whose option.htmlpath
\* is inherited when it starts
pytest_configure(p, inherited) ==
  IF ~html_plugin \/ ~is_controller(p)
    THEN [phase |-> "configured", htmlpath |-> inherited, latest |-> "none",
          set_path |-> FALSE]
    ELSE [phase |-> "configured", htmlpath |-> "report_stamped.html",
          latest |-> "latest.html", set_path |-> TRUE]

\* conftest.py:283: whether pytest_configure in process p makes the folder
MakesFolder(p) == html_plugin /\ is_controller(p)

\* conftest.py:359-372: whether pytest_unconfigure in process p copies
Copies(p) ==
  /\ is_controller(p)
  /\ pconf[p].htmlpath # "none"
  /\ pconf[p].latest # "none"
  /\ report_files.stamped

\* the controller is configured; its option.htmlpath is what --html gave
ConfigureController ==
  /\ pconf[Controller].phase = "new"
  /\ pconf' = [pconf EXCEPT ![Controller] =
                 pytest_configure(Controller, pconf[Controller].htmlpath)]
  /\ report_files' = [report_files EXCEPT !.dir = @ \/ MakesFolder(Controller)]
  /\ UNCHANGED html_plugin
  /\ UNCHANGED <<logVars, nav, mailVars, compVars, optVars, pageVars, confVars, drvVars, runVars, csvVars, listVars>>

\* a worker starts with the options of the controller and is configured
ConfigureWorker(w) ==
  /\ pconf[Controller].phase = "configured"
  /\ pconf[w].phase = "new"
  /\ pconf' = [pconf EXCEPT ![w] = pytest_configure(w, pconf[Controller].htmlpath)]
  /\ report_files' = [report_files EXCEPT !.dir = @ \/ MakesFolder(w)]
  /\ UNCHANGED html_plugin
  /\ UNCHANGED <<logVars, nav, mailVars, compVars, optVars, pageVars, confVars, drvVars, runVars, csvVars, listVars>>

\* a worker has run its tests
WorkerFinish(w) ==
  /\ pconf[w].phase = "configured"
  /\ pconf' = [pconf EXCEPT ![w].phase = "finished"]
  /\ UNCHANGED <<html_plugin, report_files>>
  /\ UNCHANGED <<logVars, nav, mailVars, compVars, optVars, pageVars, confVars, drvVars, runVars, csvVars, listVars>>

\* the session of the controller finishes when the workers that were
\* started, one at least, have run their tests: the plugin, when installed,
\* writes the report to option.htmlpath, or fails to
SessionFinish ==
  /\ pconf[Controller].phase = "configured"
  /\ \A w \in Workers : pconf[w].phase \in {"new", "finished", "done"}
  /\ \E w \in Workers : pconf[w].phase # "new"
  /\ \E written \in BOOLEAN :
       report_files' = [report_files EXCEPT !.stamped =
                          written /\ html_plugin /\ pconf[Controller].htmlpath # "none"]
  /\ pconf' = [pconf EXCEPT ![Controller].phase = "finished"]
  /\ UNCHANGED html_plugin
  /\ UNCHANGED <<logVars, nav, mailVars, compVars, optVars, pageVars, confVars, drvVars, runVars, csvVars, listVars>>

\* conftest.py:359-372: pytest_unconfigure in process p; copied tells
\* whether shutil.copyfile succeeds
Unconfigure(p) ==
  /\ pconf[p].phase = "finished"
  /\ pconf' = [pconf EXCEPT ![p].phase = "done"]
  /\ \E copied \in BOOLEAN :
       report_files' =
         IF Copies(p)
           THEN [report_files EXCEPT
                   !.latest_by = IF copied THEN @ \cup {p} ELSE @,
                   !.tried_by = @ \cup {p},
                   !.early = @ \/ ~report_files.stamped]
           ELSE report_files
  /\ UNCHANGED html_plugin
  /\ UNCHANGED <<logVars, nav, mailVars, compVars, optVars, pageVars, confVars, drvVars, runVars, csvVars, listVars>>

-----------------------------------------------------------------------------
(* csv_reader: csv.reader with the default dialect (delimiter ',', quote   *)
(* character '"', doubled quotes, not strict) over the lines of the file   *)

MaxCsv == 5

COMMA == ","
QUOTE == "\""
NL == "\n"

\* the end of a line as csv.reader is told of it
EOL == "EOL"

CsvChars == {"a", COMMA, QUOTE, NL}

\* the texts a data file may hold
CsvTexts == TextsOver(CsvChars, MaxCsv)

\* iteration over a file opened with newline="": each line keeps its "\n"
RECURSIVE LinesOf(_)
LinesOf(t) ==
  IF t = <<>> THEN <<>>
  ELSE LET ends == {i \in DOMAIN t : t[i] = NL}
       IN IF ends = {} THEN <<t>>
          ELSE LET k == CHOOSE i \in ends : \A j \in ends : i <= j
               IN <<SubSeq(t, 1, k)>> \o LinesOf(SubSeq(t, k + 1, Len(t)))

\* the reader at the start of a record
ReaderReset == [state |-> "START_RECORD", field |-> <<>>, fields |-> <<>>]

save_field(r) == [r EXCEPT !.fields = Append(@, r.field), !.field = <<>>]

add_char(r, c) == [r EXCEPT !.field = Append(@, c)]

AfterLineEnd(c) == IF c = EOL THEN "START_RECORD" ELSE "EAT_CRNL"

\* csv.reader's automaton, one character
parse_process_char(r, c) ==
  CASE r.state = "START_RECORD" /\ c = EOL -> r
    [] r.state = "START_RECORD" /\ c = NL -> [r EXCEPT !.state = "EAT_CRNL"]
    [] r.state \in {"START_RECORD", "START_FIELD"} /\ c \notin {EOL, NL} ->
         IF c = QUOTE THEN [r EXCEPT !.state = "IN_QUOTED_FIELD"]
         ELSE IF c = COMMA THEN [save_field(r) EXCEPT !.state = "START_FIELD"]
         ELSE [add_char(r, c) EXCEPT !.state = "IN_FIELD"]
    [] r.state = "START_FIELD" /\ c \in {EOL, NL} ->
         [save_field(r) EXCEPT !.state = AfterLineEnd(c)]
    [] r.state = "IN_FIELD" ->
         IF c \in {EOL, NL} THEN [save_field(r) EXCEPT !.state = AfterLineEnd(c)]
         ELSE IF c = COMMA THEN [save_field(r) EXCEPT !.state = "START_FIELD"]
         ELSE add_char(r, c)
    [] r.state = "IN_QUOTED_FIELD" ->
         IF c = EOL THEN r
         ELSE IF c = QUOTE THEN [r EXCEPT !.state = "QUOTE_IN_QUOTED_FIELD"]
         ELSE add_char(r, c)
    [] r.state = "QUOTE_IN_QUOTED_FIELD" ->
         IF c = QUOTE THEN [add_char(r, c) EXCEPT !.state = "IN_QUOTED_FIELD"]
         ELSE IF c = COMMA THEN [save_field(r) EXCEPT !.state = "START_FIELD"]
         ELSE IF c \in {EOL, NL} THEN [save_field(r) EXCEPT !.state = AfterLineEnd(c)]
         ELSE [add_char(r, c) EXCEPT !.state = "IN_FIELD"]
    [] r.state = "EAT_CRNL" ->
         IF c = EOL THEN [r EXCEPT !.state = "START_RECORD"]
         ELSE IF c = NL THEN r
         ELSE [r EXCEPT !.state = "ERROR"]
    [] OTHER -> r

\* the characters of a line, then the end of the line
RECURSIVE FeedLine(_, _)
FeedLine(r, line) ==
  IF line = <<>> THEN parse_process_char(r, EOL)
  ELSE FeedLine(parse_process_char(r, Head(line)), Tail(line))

\* the records csv.reader yields: lines are fed until a record is complete;
\* at the end of the input an open quoted field closes the last record
RECURSIVE Records(_, _)
Records(lines, r) ==
  IF lines = <<>>
    THEN IF r.field # <<>> \/ r.state = "IN_QUOTED_FIELD"
           THEN <<save_field(r).fields>> ELSE <<>>
  ELSE LET fed == FeedLine(r, Head(lines))
       IN IF fed.state = "START_RECORD"
            THEN <<fed.fields>> \o Records(Tail(lines), ReaderReset)
            ELSE Records(Tail(lines), fed)

\* csv_reader that returns the header row as well
csv_reader_KeepingHeader(text) == Records(LinesOf(text), ReaderReset)

\* csv_reader.py:69-75
csv_reader(text) ==
  LET csv_rows == Records(LinesOf(text), ReaderReset)
  IN IF csv_rows = <<>> THEN <<>> ELSE Tail(csv_rows)

\* csv_reader(path) is called on the file
CsvReader ==
  /\ csv_pc = "idle"
  /\ rows' = csv_reader(csv_file)
  /\ csv_pc' = "read"
  /\ UNCHANGED <<csv_file, pageVars, confVars, drvVars, runVars, listVars, moreVars>>

-----------------------------------------------------------------------------
(* ElementUtil: operations over a list of element handles, each with the   *)
(* text it shows                                                           *)

MaxChoices == 3
MaxValues == 2

\* the texts an element of a list may show
ChoiceTexts == {<<>>, <<"A">>, <<"B">>}

RECURSIVE ListsOver(_, _)
ListsOver(S, n) ==
  IF n = 0 THEN {<<>>}
  ELSE LET shorter == ListsOver(S, n - 1)
       IN shorter \cup {Append(l, x) : l \in {s \in shorter : Len(s) = n - 1}, x \in S}

\* the lists of handles a lookup may return, by the texts of the handles
HandleLists == ListsOver(ChoiceTexts, MaxChoices)

\* the *values a caller may pass to select_options
ValueLists == ListsOver(ChoiceTexts \ {<<>>}, MaxValues)

\* python: x in values
In(x, values) == \E i \in DOMAIN values : values[i] = x

ListOutcome(err, clicks) == [err |-> err, clicks |-> clicks]

\* element_util.py:540-543: the positions of the choices that are clicked
RECURSIVE ClickedChoices(_, _, _)
ClickedChoices(choices, values, i) ==
  IF i > Len(choices) THEN <<>>
  ELSE (IF In(choices[i], values) THEN <<i>> ELSE <<>>)
         \o ClickedChoices(choices, values, i + 1)

\* element_util.py:533-550; found tells whether the dropdown was found
select_options(found, choices, values) ==
  IF ~found THEN ListOutcome("NoSuchElementException", <<>>)
  ELSE LET clicks == ClickedChoices(choices, values, 1)
           selected_count == Len(clicks)
       IN IF selected_count # Len(values)
            THEN ListOutcome("FrameworkException", clicks)
            ELSE ListOutcome(NoError, clicks)

\* element_util.py:326-335: click_element(elements=..., value=...)
click_element_by_text(elements, v) ==
  IF elements # <<>> /\ ~Falsy(v)
    THEN LET hits == {i \in DOMAIN elements : elements[i] = v}
         IN IF hits = {} THEN ListOutcome("FrameworkException", <<>>)
            ELSE ListOutcome(NoError, <<CHOOSE i \in hits : \A j \in hits : i <= j>>)
    ELSE ListOutcome(NoError, <<>>)

NoListCall == [op |-> "none", found |-> FALSE, values |-> <<>>]

\* select_options(dropdown_locator, choices_locator, *values) is called
SelectOptions ==
  \E found \in BOOLEAN, values \in ValueLists :
    /\ lcall' = [op |-> "select_options", found |-> found, values |-> values]
    /\ lres' = select_options(found, handles, values)
    /\ UNCHANGED <<handles, pageVars, confVars, drvVars, runVars, csvVars, moreVars>>

\* click_element(elements=handles, value=v) is called
ClickElementByText ==
  \E v \in ChoiceTexts \cup {NoneVal} :
    /\ lcall' = [op |-> "click_element", found |-> TRUE, values |-> <<v>>]
    /\ lres' = click_element_by_text(handles, v)
    /\ UNCHANGED <<handles, pageVars, confVars, drvVars, runVars, csvVars, moreVars>>

-----------------------------------------------------------------------------
(* Specifications: each starts from the states its part of the program   *)
(* can be in and leaves the rest of the model at rest.                     *)

InitProdIdle ==
  /\ product_info_map = EmptyMap
  /\ meta_list = <<>>
  /\ price_list = <<>>
  /\ ppc = "new"

InitUtilIdle ==
  /\ call = NoCall
  /\ issued = {}
  /\ res = NoOutcome
  /\ upc = "idle"
  /\ elapsed = 0

InitDomIdle ==
  /\ present = {}
  /\ displayed = {}
  /\ value = [e \in Elems |-> <<>>]
  /\ title = <<>>

InitRegIdle ==
  /\ site = [page |-> "register", logged_in |-> FALSE, form |-> FreshForm, accounts |-> {}]
  /\ rpc = "idle"
  /\ rargs = NoArgs
  /\ rret = "none"
  /\ rerr = NoError
  /\ rclicks = <<>>
  /\ success_text = NoneVal
  /\ reply = "none"
  /\ ncalls = 0

LineLists == ListsWithin(MaxLines, MaxChars)

InitSessIdle ==
  /\ shown = Shown("account", <<>>)
  /\ search_field = <<>>
  /\ visited = {}
  /\ serr = NoError

InitConfIdle ==
  /\ config_file = Missing
  /\ test_env = "unset"
  /\ data = Null
  /\ env = Null
  /\ nloads = 0
  /\ ngets = 0
  /\ ckey = "none"
  /\ cret = Null
  /\ cerr = NoError

InitDrvIdle ==
  /\ driver = NoDriver
  /\ dargs = NoDriverArgs
  /\ dret = FALSE
  /\ derr = NoError
  /\ dmsg = <<>>
  /\ dorphan = FALSE

InitRunIdle ==
  /\ assigned = [i \in ItemIds |-> 1]
  /\ wstate = [w \in Workers |-> IdleWorker]
  /\ sessions = <<>>
  /\ reports = [i \in ItemIds |-> NoReport]

InitCsvIdle ==
  /\ csv_file = <<>>
  /\ rows = <<>>
  /\ csv_pc = "idle"

InitListIdle ==
  /\ handles = <<>>
  /\ lcall = NoListCall
  /\ lres = ListOutcome(NoError, <<>>)

InitLogIdle ==
  /\ titem = IdleItem
  /\ tlog = <<>>

InitMailIdle ==
  /\ clock = 0
  /\ mailw = [w \in Workers |-> IdleMailer]
  /\ mails = <<>>

InitCompIdle ==
  /\ ccs = <<>>
  /\ utils = <<>>
  /\ insts = <<>>
  /\ access = NoAccess
  /\ firsts = <<>>

InitOptIdle ==
  /\ oargs = NoOptionArgs
  /\ options_built = NoOptions

InitReportIdle ==
  /\ html_plugin = FALSE
  /\ pconf = [p \in Processes |-> NewProcess]
  /\ report_files = NoFiles

InitMoreIdle ==
  /\ InitLogIdle /\ nav = "none" /\ InitMailIdle /\ InitCompIdle /\ InitOptIdle
  /\ InitReportIdle

InitHarnessIdle ==
  /\ InitConfIdle /\ InitDrvIdle /\ InitRunIdle /\ InitCsvIdle /\ InitListIdle
  /\ InitMoreIdle

InitPagesIdle ==
  /\ InitProdIdle /\ InitDomIdle /\ InitUtilIdle /\ InitRegIdle /\ InitSessIdle
  /\ do_flash = FALSE

InitParse ==
  /\ InitHarnessIdle
  /\ InitDomIdle /\ InitUtilIdle /\ InitRegIdle /\ InitSessIdle /\ do_flash = FALSE
  /\ product_info_map = EmptyMap
  /\ ppc = "new"
  /\ \/ meta_list \in LineLists /\ price_list = <<>>
     \/ meta_list = <<>> /\ price_list \in LineLists

NextParse == GetProductMetaData \/ GetProductPriceData

SpecParse == InitParse /\ [][NextParse]_vars

InitElem ==
  /\ InitHarnessIdle
  /\ InitProdIdle
  /\ InitRegIdle
  /\ InitSessIdle
  /\ InitUtilIdle
  /\ do_flash \in BOOLEAN
  /\ present \in SUBSET Elems
  /\ displayed = {}
  /\ value \in [Elems -> FieldTexts]
  /\ title = <<>>

NextElem ==
  \/ GetElement \/ GetElements \/ GetElementsCount \/ EnterText
  \/ IsElementDisplayed \/ DomUpdate

SpecElem == InitElem /\ [][NextElem]_vars

InitWait ==
  /\ InitHarnessIdle
  /\ InitProdIdle
  /\ InitRegIdle
  /\ InitSessIdle
  /\ InitUtilIdle
  /\ do_flash \in BOOLEAN
  /\ present \in SUBSET Elems
  /\ displayed \in SUBSET Elems
  /\ value = [e \in Elems |-> <<>>]
  /\ title \in Titles

NextWait ==
  \/ WaitVisibleStart \/ WaitVisiblePoll \/ WaitVisibleLog \/ WaitVisibleFlash
  \/ WaitTitleStart \/ WaitTitlePoll \/ WaitTitleRead
  \/ DomChange \/ TitleChange

SpecWait == InitWait /\ [][NextWait]_vars

\* the session stands on the registration form, as setup_registration_page
\* leaves it; some addresses may have an account already
InitReg ==
  /\ InitHarnessIdle
  /\ InitProdIdle /\ InitDomIdle /\ InitUtilIdle /\ InitSessIdle /\ do_flash = FALSE
  /\ \E known \in SUBSET Emails :
       site = [page |-> "register", logged_in |-> FALSE, form |-> FreshForm,
               accounts |-> known]
  /\ rpc = "idle"
  /\ rargs = NoArgs
  /\ rret = "none"
  /\ rerr = NoError
  /\ rclicks = <<>>
  /\ success_text = NoneVal
  /\ reply = "none"
  /\ ncalls = 0

NextReg == RegisterFill \/ RegisterSubmit \/ RegisterVerify

SpecReg == InitReg /\ [][NextReg]_vars

\* register_user with a browser that may render the answer to the submit
\* before or after the click on Continue returns
NextNav ==
  RegisterFill \/ RegisterSubmit \/ RegisterClick \/ Navigate \/ RegisterVerify

SpecNav == InitReg /\ [][NextNav]_vars

\* the session stands on the account page, as setup_account_page leaves it
InitSess ==
  /\ InitHarnessIdle
  /\ InitProdIdle /\ InitDomIdle /\ InitUtilIdle /\ InitRegIdle /\ InitSessIdle
  /\ do_flash = FALSE

NextSess == SearchProduct \/ SelectProduct \/ GetProductCompleteInfo

SpecSess == InitSess /\ [][NextSess]_vars

\* a process starts with nothing loaded, beside any config.yaml and TEST_ENV
InitConf ==
  /\ InitPagesIdle
  /\ InitDrvIdle
  /\ InitRunIdle
  /\ InitCsvIdle
  /\ InitListIdle /\ InitMoreIdle
  /\ config_file \in ConfigFiles
  /\ test_env \in TestEnvs
  /\ data = Null
  /\ env = Null
  /\ nloads = 0
  /\ ngets = 0
  /\ ckey = "none"
  /\ cret = Null
  /\ cerr = NoError

NextConf == GetConfig \/ FileChange \/ EnvChange

SpecConf == InitConf /\ [][NextConf]_vars

NextDriver == DriverManager \/ FileChange \/ EnvChange

SpecDriver == InitConf /\ [][NextDriver]_vars

\* a run in one process
InitRun ==
  /\ InitPagesIdle /\ InitConfIdle /\ InitDrvIdle /\ InitCsvIdle /\ InitListIdle /\ InitMoreIdle
  /\ assigned = [i \in ItemIds |-> 1]
  /\ wstate = [w \in Workers |-> IdleWorker]
  /\ sessions = <<>>
  /\ reports = [i \in ItemIds |-> NoReport]

NextRun == \E w \in Workers : RunSetup(w) \/ RunCallStart(w) \/ RunCallEnd(w) \/ RunTeardown(w)

SpecRun == InitRun /\ [][NextRun]_vars

\* a run whose methods are sent to two worker processes (pytest -n 2)
InitParallel ==
  /\ InitPagesIdle /\ InitConfIdle /\ InitDrvIdle /\ InitCsvIdle /\ InitListIdle /\ InitMoreIdle
  /\ assigned \in [ItemIds -> Workers]
  /\ wstate = [w \in Workers |-> IdleWorker]
  /\ sessions = <<>>
  /\ reports = [i \in ItemIds |-> NoReport]

SpecParallel == InitParallel /\ [][NextRun]_vars

\* the data file holds any text
InitCsv ==
  /\ InitPagesIdle /\ InitConfIdle /\ InitDrvIdle /\ InitRunIdle /\ InitListIdle /\ InitMoreIdle
  /\ csv_file \in CsvTexts
  /\ rows = <<>>
  /\ csv_pc = "idle"

NextCsv == CsvReader

SpecCsv == InitCsv /\ [][NextCsv]_vars

\* a lookup returned any list of handles
InitList ==
  /\ InitPagesIdle /\ InitConfIdle /\ InitDrvIdle /\ InitRunIdle /\ InitCsvIdle
  /\ InitMoreIdle
  /\ handles \in HandleLists
  /\ lcall = NoListCall
  /\ lres = ListOutcome(NoError, <<>>)

NextList == SelectOptions \/ ClickElementByText

\* a sequence of tests in one process
InitLog ==
  /\ InitPagesIdle /\ InitConfIdle /\ InitDrvIdle /\ InitRunIdle /\ InitCsvIdle
  /\ InitListIdle
  /\ titem = IdleItem
  /\ tlog = <<>>
  /\ nav = "none"
  /\ InitMailIdle
  /\ InitCompIdle
  /\ InitOptIdle
  /\ InitReportIdle

NextLog == LogSetup \/ LogCall \/ LogTeardown

\* the iterations of the registration test in a run of two processes
InitMail ==
  /\ InitPagesIdle /\ InitConfIdle /\ InitDrvIdle /\ InitRunIdle /\ InitCsvIdle
  /\ InitListIdle /\ InitLogIdle /\ nav = "none" /\ InitCompIdle /\ InitOptIdle
  /\ InitReportIdle
  /\ clock = 0
  /\ mailw = [w \in Workers |-> IdleMailer]
  /\ mails = <<>>

NextMail == Tick \/ \E w \in Workers : Register(w) \/ RegisterEnd(w)

SpecMail == InitMail /\ [][NextMail]_vars

\* CommonComponents objects are constructed and their properties read
InitComp ==
  /\ InitPagesIdle /\ InitConfIdle /\ InitDrvIdle /\ InitRunIdle /\ InitCsvIdle
  /\ InitListIdle /\ InitLogIdle /\ nav = "none" /\ InitMailIdle /\ InitOptIdle
  /\ InitReportIdle
  /\ ccs = <<>>
  /\ utils = <<>>
  /\ insts = <<>>
  /\ access = NoAccess
  /\ firsts = <<>>

NextComp == NewCommonComponents \/ AccessProperty

SpecComp == InitComp /\ [][NextComp]_vars

\* options objects are built
InitOpt ==
  /\ InitPagesIdle /\ InitConfIdle /\ InitDrvIdle /\ InitRunIdle /\ InitCsvIdle
  /\ InitListIdle /\ InitLogIdle /\ nav = "none" /\ InitMailIdle /\ InitCompIdle
  /\ InitReportIdle
  /\ oargs = NoOptionArgs
  /\ options_built = NoOptions

NextOpt == BuildOptions

SpecOpt == InitOpt /\ [][NextOpt]_vars

\* a run of a controller and one or two workers, with or without the report
\* plugin and its --html option
InitReport ==
  /\ InitPagesIdle /\ InitConfIdle /\ InitDrvIdle /\ InitRunIdle /\ InitCsvIdle
  /\ InitListIdle /\ InitLogIdle /\ nav = "none" /\ InitMailIdle /\ InitCompIdle
  /\ InitOptIdle
  /\ html_plugin \in BOOLEAN
  /\ \E cli \in IF html_plugin THEN {"none", "cli.html"} ELSE {"none"} :
       pconf = [p \in Processes |->
                 IF p = Controller THEN [NewProcess EXCEPT !.htmlpath = cli]
                 ELSE NewProcess]
  /\ \E dir \in BOOLEAN : report_files = [NoFiles EXCEPT !.dir = dir]

NextReport ==
  \/ ConfigureController
  \/ SessionFinish
  \/ \E w \in Workers : ConfigureWorker(w) \/ WorkerFinish(w)
  \/ \E p \in Processes : Unconfigure(p)

SpecReport == InitReport /\ [][NextReport]_vars

SpecLog == InitLog /\ [][NextLog]_vars

SpecList == InitList /\ [][NextList]_vars

-----------------------------------------------------------------------------
(* What a text node says, read off the text itself *)

Colons(t) == {i \in DOMAIN t : t[i] = COLON}
FirstColon(t) == CHOOSE i \in Colons(t) : \A j \in Colons(t) : i <= j
BeforeFirst(t) == SubSeq(t, 1, FirstColon(t) - 1)
AfterFirst(t) == SubSeq(t, FirstColon(t) + 1, Len(t))

\* t without its leading and trailing white space
Trimmed(t) ==
  LET ns == {i \in DOMAIN t : t[i] # SPACE}
  IN IF ns = {} THEN <<>>
     ELSE SubSeq(t, CHOOSE i \in ns : \A j \in ns : i <= j,
                    CHOOSE i \in ns : \A j \in ns : i >= j)

Label(t) == Trimmed(BeforeFirst(t))
Value(t) == Trimmed(AfterFirst(t))

\* the nodes of list l, among those numbered in I, that carry label k
Carrying(l, I, k) == {i \in I : Label(l[i]) = k}

\* node i is the last node numbered in I that carries its label
LastOfLabel(l, I, i) == \A j \in Carrying(l, I, Label(l[i])) : j <= i

OneColon(l) == {i \in DOMAIN l : Cardinality(Colons(l[i])) = 1}
SomeColon(l) == {i \in DOMAIN l : Colons(l[i]) # {}}
NoColon(l) == {i \in DOMAIN l : Colons(l[i]) = {}}

-----------------------------------------------------------------------------
(* C4: every metadata line 'label: value' with one colon adds the entry    *)
(* stripped label -> stripped value (the last line of a label decides its  *)
(* value); a line without a colon adds no entry and does not keep the      *)
(* entries of the other lines from being added.                            *)
C4_MetaLinesAdded ==
  ppc = "meta" =>
    /\ \A i \in OneColon(meta_list) :
         /\ Label(meta_list[i]) \in DOMAIN product_info_map
         /\ LastOfLabel(meta_list, OneColon(meta_list), i)
              => product_info_map[Label(meta_list[i])] = Value(meta_list[i])
    /\ \A k \in DOMAIN product_info_map :
         Carrying(meta_list, SomeColon(meta_list), k) # {}

\* a line without a colon stands before a well-formed line whose label and
\* value both needed stripping, and the entry of that line is in the map
C4_Witness ==
  /\ ppc = "meta"
  /\ \E i \in NoColon(meta_list), j \in OneColon(meta_list) :
       /\ i < j
       /\ meta_list[i] # <<>>
       /\ AfterFirst(meta_list[j]) # Value(meta_list[j])
       /\ Value(meta_list[j]) # <<>>
       /\ product_info_map = (Label(meta_list[j]) :> Value(meta_list[j]))

-----------------------------------------------------------------------------
(* C5 as stated: every node that holds a colon is split at its first       *)
(* colon, the stripped text before it being the key and the stripped text  *)
(* after it the value, further colons in the value included.               *)
C5_SplitAtFirstColon ==
  ppc = "meta" =>
    \A i \in SomeColon(meta_list) :
      /\ Label(meta_list[i]) \in DOMAIN product_info_map
      /\ LastOfLabel(meta_list, SomeColon(meta_list), i)
           => product_info_map[Label(meta_list[i])] = Value(meta_list[i])

\* the second price node, when it is there
TaxNodes == {i \in DOMAIN price_list : i = 2}

(* C5 amended: a node is split at its colon only when it holds exactly one *)
(* colon; a node with no colon or with more than one adds no entry.  This  *)
(* holds of the metadata nodes and of the second price node; the first     *)
(* price node is stored whole, stripped, under "price".                    *)
C5_SplitOnlyOneColon ==
  /\ ppc = "meta" =>
       /\ DOMAIN product_info_map = {Label(meta_list[i]) : i \in OneColon(meta_list)}
       /\ \A i \in OneColon(meta_list) :
            LastOfLabel(meta_list, OneColon(meta_list), i)
              => product_info_map[Label(meta_list[i])] = Value(meta_list[i])
  /\ ppc = "price" =>
       LET tax == TaxNodes \cap OneColon(price_list)
       IN /\ DOMAIN product_info_map =
               {<<"price">> : i \in DOMAIN price_list \cap {1}}
                 \cup {Label(price_list[i]) : i \in tax}
          /\ \A i \in tax : product_info_map[Label(price_list[i])] = Value(price_list[i])
          /\ price_list # <<>> /\ (\A i \in tax : Label(price_list[i]) # <<"price">>)
               => product_info_map[<<"price">>] = Trimmed(price_list[1])

\* a node whose value holds a further colon was read and added no entry,
\* next to a node with one colon that did
C5_Witness ==
  /\ ppc = "meta"
  /\ \E i, j \in DOMAIN meta_list :
       /\ Cardinality(Colons(meta_list[i])) > 1
       /\ Cardinality(Colons(meta_list[j])) = 1
       /\ DOMAIN product_info_map = {Label(meta_list[j])}

-----------------------------------------------------------------------------
\* the elements a locator selected when the last call began
Selected == call.ref.loc \cap call.dom

(* C6: after enter_text(L, V) returns, for a non-empty V and whatever the   *)
(* field held before, the field holds exactly V; so it does after a second *)
(* enter_text(L, V) with the same V.                                        *)
C6_EnterTextLeavesValue ==
  (call.op = "enter_text" /\ res.err = NoError) =>
    /\ ~Falsy(call.val)
    /\ value[res.elems[1]] = call.val

\* enter_text has just returned a second time for the same field and text
C6_Witness ==
  /\ call.op = "enter_text" /\ call.again /\ res.err = NoError
  /\ call.val # <<>>
  /\ value[res.elems[1]] = call.val

(* C7: enter_text with an empty or absent value fails with the framework's *)
(* error, for a locator that selects something, for one that selects       *)
(* nothing and for an element handle, before it has issued any lookup,     *)
(* clear or keystroke.                                                     *)
C7_EmptyValueRejectedFirst ==
  (call.op = "enter_text" /\ Falsy(call.val)) =>
    /\ res.err = "FrameworkException"
    /\ issued = {}

\* the empty text was refused for a locator that selects nothing
C7_Witness ==
  /\ call.op = "enter_text" /\ call.val = <<>>
  /\ call.ref.kind = "locator" /\ Selected = {}
  /\ res.err = "FrameworkException"

(* C8: for a locator that selects no element, get_elements returns the     *)
(* empty sequence without an error, get_elements_count returns 0, and      *)
(* get_element fails with the not-found error.                             *)
C8_ZeroMatches ==
  (call.ref.kind = "locator" /\ Selected = {}) =>
    /\ call.op = "get_elements" => res.err = NoError /\ res.elems = <<>>
    /\ call.op = "get_elements_count" => res.err = NoError /\ res.count = 0
    /\ call.op = "get_element" => res.err = "NoSuchElementException"

\* get_elements returned the empty sequence for a locator whose elements
\* are not attached to the page
C8_Witness ==
  /\ call.op = "get_elements" /\ call.ref.loc # {} /\ Selected = {}
  /\ res.err = NoError /\ res.elems = <<>>

-----------------------------------------------------------------------------
(* C9: every call wait_for_element_to_be_visible(L, T) ends, within T, in  *)
(* one of two ways: it returns the handle of an element that was attached  *)
(* and displayed, or it fails with the framework's timeout error; with the *)
(* flash flag on or off there is no other outcome.                         *)
C9_HandleOrTimeout ==
  call.op = "wait_for_element_to_be_visible" =>
    /\ elapsed <= call.timeout
    /\ upc = "done" =>
         \/ res.err = NoError /\ res.elems # <<>>
         \/ res.err = "FrameworkException"

(* C10: wait_for_title_contains(F, T) raises nothing and returns None or a *)
(* title that contains F, also when the title changes between the poll     *)
(* that found F and the read of the title.                                 *)
C10_NoneOrTitleWithFragment ==
  (call.op = "wait_for_title_contains" /\ upc = "done") =>
    /\ res.err = NoError
    /\ res.text = NoneVal \/ Contains(call.val, res.text)

-----------------------------------------------------------------------------
\* the element a reference stands for, when it is attached
Referred(ref) ==
  CASE ref.kind = "locator" -> find_elements(ref.loc)
    [] ref.kind = "element" -> IF ref.el \in present THEN <<ref.el>> ELSE <<>>
    [] OTHER -> <<>>

(* C11: is_element_displayed never raises, for a locator or a handle and   *)
(* with the flash flag on or off: the call ends without an error, with     *)
(* true exactly when the element referred to is attached and displayed.    *)
C11_NeverRaises ==
  call.op = "is_element_displayed" =>
    /\ res.err = NoError
    /\ res.text = <<"True">> <=>
         (Referred(call.ref) # <<>> /\ Referred(call.ref)[1] \in displayed)
    /\ res.text \in {<<"True">>, <<"False">>}

-----------------------------------------------------------------------------
\* the keys the page of the product shown gives: productHeader, the labels
\* of its well-formed metadata nodes, price and the label of its tax node
OwnKeys ==
  {T("productHeader")}
    \cup {Label(meta_list[i]) : i \in OneColon(meta_list)}
    \cup {T("price") : i \in DOMAIN price_list \cap {1}}
    \cup {Label(price_list[i]) : i \in TaxNodes \cap OneColon(price_list)}

(* C3: in any sequence of search_product, select_product and               *)
(* get_product_complete_info steps of one session, the map returned for a  *)
(* product holds productHeader, the well-formed metadata entries and the   *)
(* price entries of that product's own page and nothing else: no key of a  *)
(* product visited earlier is carried over.  The map is the one the test   *)
(* expects, PRODUCTS_INFO[product].                                        *)
C3_OwnPageOnly ==
  ppc = "info" =>
    /\ DOMAIN product_info_map = OwnKeys
    /\ product_info_map = PRODUCTS_INFO[shown.name]

\* the tablet, which has no Brand, was read after a MacBook, which has one
C3_Witness ==
  /\ ppc = "info"
  /\ shown.name = "Samsung Galaxy Tab 10.1"
  /\ "MacBook Pro" \in visited
  /\ T("Brand") \notin DOMAIN product_info_map
  /\ T("Brand") \in DOMAIN PRODUCTS_INFO["MacBook Pro"]

-----------------------------------------------------------------------------
\* the browser kind of the driver_manager call made last
AskedKind == lower(strip(dargs.browser))

DriverManagerCalled == dargs # NoDriverArgs

(* C12: for chrome, firefox and edge, compared after strip() and lower(),  *)
(* and for remote true and false, a session that driver_manager returns    *)
(* was maximized and had all its cookies deleted before it was returned.   *)
C12_MaximizedNoCookies ==
  dret =>
    /\ derr = NoError
    /\ AskedKind \in Supported
    /\ driver.kind = AskedKind /\ driver.remote = dargs.remote
    /\ driver.maximized /\ driver.cookies = {}
    /\ driver.commands = <<"maximize_window", "delete_all_cookies">>

\* a remote session asked for as " Chrome " started with a cookie
C12_Witness ==
  /\ dret /\ dargs.remote
  /\ dargs.browser = <<SPACE, "Chrome", SPACE>>
  /\ driver.profile # {}

(* C13: for every browser kind other than chrome, firefox and edge, with   *)
(* remote true or false and whatever the configuration holds,              *)
(* driver_manager fails with the FrameworkException whose message names    *)
(* the value given and lists Chrome, Firefox and Edge, and with no other   *)
(* error.                                                                  *)
C13_UnsupportedBrowserError ==
  (DriverManagerCalled /\ AskedKind \notin Supported) =>
    /\ ~dret
    /\ derr = "FrameworkException"
    /\ dmsg = UnsupportedMessage(dargs.browser)

(* C14: once a load has succeeded, no step of the process runs             *)
(* _load_config again (which reads TEST_ENV and the file) or replaces the  *)
(* snapshot, and every get_config call that returns answers from the       *)
(* snapshot.                                                               *)
C14_LoadedOnce ==
  /\ [][data # Null => (data' = data /\ env' = env /\ nloads' = nloads)]_vars
  /\ []((ngets > 0 /\ cerr = NoError) => cret = Get(data, ckey))

\* the file was removed after the load and a later call was still answered
C14_Witness ==
  /\ nloads = 1 /\ ngets >= 2
  /\ data # Null /\ cerr = NoError
  /\ config_file = Missing
  /\ ckey = "remote" /\ cret # Null

-----------------------------------------------------------------------------
SessionIds == DOMAIN sessions

\* every process has run the teardown of its last method
RunOver ==
  \A w \in Workers : NextOf(w, wstate[w].pos) = 0 /\ wstate[w].phase \in {"idle", "done"}

Failed(i) == reports[i].setup = "failed" \/ reports[i].call = "failed"

C16_OneSessionPerClass ==
  /\ \A i, j \in ItemIds :
       (/\ TestItems[i].cls = TestItems[j].cls
        /\ reports[i].session # 0 /\ reports[j].session # 0)
         => reports[i].session = reports[j].session
  /\ \A w1, w2 \in Workers :
       (w1 # w2 /\ wstate[w1].phase = "calling" /\ wstate[w2].phase = "calling")
         => wstate[w1].driver # wstate[w2].driver

(* C17 as stated: whenever a test failed, a screenshot is embedded in its  *)
(* report entry.                                                           *)
C17_FailedHasScreenshot ==
  \A i \in ItemIds : Failed(i) => reports[i].shots >= 1

(* C17: a test that failed in its setup or call phase while its class had  *)
(* a driver attribute and the session delivered a screenshot has exactly   *)
(* one screenshot embedded in its report entry; every other entry has none.*)
C17_ScreenshotWhenSessionDelivers ==
  \A i \in ItemIds :
    reports[i].shots =
      IF Failed(i) /\ reports[i].drv # 0 /\ reports[i].png THEN 1 ELSE 0

\* a page fixture failed in the setup phase with the session open, and the
\* screenshot of the session was embedded
C17_Witness ==
  /\ reports[1].setup = "failed" /\ reports[1].drv = 1 /\ reports[1].shots = 1
  /\ reports[2].setup = "failed" /\ reports[2].drv = 1 /\ ~reports[2].png
  /\ reports[2].shots = 0

-----------------------------------------------------------------------------
(* The rows of a text, read off the text itself: row k lies between the    *)
(* newline k - 1 and the newline k; its fields lie between its commas.     *)

Positions(t, c) == {i \in DOMAIN t : t[i] = c}

\* the position of the k-th c in t; 0 for k = 0, Len(t) + 1 past the last
Kth(t, c, k) ==
  IF k = 0 THEN 0
  ELSE IF k > Cardinality(Positions(t, c)) THEN Len(t) + 1
  ELSE CHOOSE i \in Positions(t, c) :
         Cardinality({j \in Positions(t, c) : j <= i}) = k

\* the k-th piece of t when t is cut at every c
Piece(t, c, k) == SubSeq(t, Kth(t, c, k - 1) + 1, Kth(t, c, k) - 1)

\* a text that ends in a newline has no row after it
NRows(t) ==
  Cardinality(Positions(t, NL)) + (IF t # <<>> /\ t[Len(t)] # NL THEN 1 ELSE 0)

RowText(t, k) == Piece(t, NL, k)

\* a blank row has no field; any other row has one field more than commas
FieldsOfRow(line) ==
  IF line = <<>> THEN <<>>
  ELSE [m \in 1 .. Cardinality(Positions(line, COMMA)) + 1 |-> Piece(line, COMMA, m)]

NoQuotes(t) == Positions(t, QUOTE) = {}

\* the first row is dropped and every following row is returned in order
RowsAfterHeader ==
  /\ NRows(csv_file) <= 1 => rows = <<>>
  /\ NoQuotes(csv_file) =>
       /\ Len(rows) = IF NRows(csv_file) = 0 THEN 0 ELSE NRows(csv_file) - 1
       /\ \A k \in DOMAIN rows : rows[k] = FieldsOfRow(RowText(csv_file, k + 1))

(* C18 as stated: the header row is dropped, every following row is        *)
(* returned in order as the tuple of its fields, an empty or header-only   *)
(* file gives an empty list, and every returned tuple has five fields.     *)
C18_FiveFieldTuples ==
  csv_pc = "read" =>
    /\ RowsAfterHeader
    /\ \A k \in DOMAIN rows : Len(rows[k]) = 5

(* C18: the header row is dropped and every following row of a file        *)
(* without quote characters is returned in order as the tuple of its       *)
(* fields: as many fields as the row has, one more than its commas, and    *)
(* none for a blank row; an empty or header-only file gives an empty list. *)
C18_RowsInOrder ==
  csv_pc = "read" => RowsAfterHeader

\* an empty header row followed by a row of five empty fields
C18_Witness ==
  /\ csv_pc = "read"
  /\ csv_file = <<NL, COMMA, COMMA, COMMA, COMMA>>
  /\ Len(rows) = 1 /\ Len(rows[1]) = 5

-----------------------------------------------------------------------------
\* some handle of the list shows the text v
Shows(v) == \E i \in DOMAIN handles : handles[i] = v

(* C19: select_options on a dropdown that was found fails with the         *)
(* FrameworkException exactly when some requested value is the text of no  *)
(* choice, for every list of choices and every list of values.             *)
C19_FailsIffValueUnmatched ==
  (lcall.op = "select_options" /\ lcall.found) =>
    /\ lres.err \in {NoError, "FrameworkException"}
    /\ lres.err = "FrameworkException" <=>
         \E k \in DOMAIN lcall.values : ~Shows(lcall.values[k])

(* C20: click_element with a list of handles and a text raises the         *)
(* FrameworkException and clicks nothing when no handle shows the text,    *)
(* also for the empty list; otherwise it clicks the first handle that      *)
(* shows the text and no other.                                            *)
C20_ClickFirstOrNotFound ==
  lcall.op = "click_element" =>
    LET v == lcall.values[1]
    IN IF Shows(v)
         THEN /\ lres.err = NoError
              /\ Len(lres.clicks) = 1
              /\ handles[lres.clicks[1]] = v
              /\ \A i \in DOMAIN handles : handles[i] = v => lres.clicks[1] <= i
         ELSE /\ lres.err = "FrameworkException"
              /\ lres.clicks = <<>>

(* C30: a select_options call that fails with the FrameworkException has   *)
(* clicked none of the choices.                                            *)
C30_NoClickOnError ==
  (lcall.op = "select_options" /\ lres.err = "FrameworkException") =>
    lres.clicks = <<>>

(* C27: whenever driver_manager ends by raising, no session that the call  *)
(* started is left open.                                                   *)
C27_NoOrphanSession ==
  (DriverManagerCalled /\ derr # NoError) => ~dorphan

(* C28: the end line of a test names FAILED exactly when the test failed   *)
(* in its setup or call phase and PASSED otherwise, with or without a      *)
(* browser session attached.                                               *)
C28_EndLineTellsOutcome ==
  \A k \in DOMAIN tlog :
    tlog[k].line # "none" =>
      (tlog[k].line = "FAILED" <=> tlog[k].failed)

(* C26: when register_user has filled the form and not yet submitted it,   *)
(* every field holds exactly the argument passed for it, in every call of  *)
(* a sequence of calls on the page object.                                 *)
C26_FieldsHoldArguments ==
  rpc = "filled" =>
    \A f \in FormFields : site.form.fields[f] = ArgOf(rargs, f)

\* the page the shop answers a submit with
AnswerPage(r) ==
  CASE r = "created" -> "success"
    [] r = "other" -> "other"
    [] r = "rejected" -> "register"
    [] OTHER -> "blank"

(* C25: the text register_user compares with the success text is the       *)
(* heading of the page the shop answered the submit with, never the        *)
(* heading of the form displayed before the answer was rendered.           *)
C25_ReadsAnswerHeading ==
  (rpc = "done" /\ reply # "none" /\ success_text # NoneVal) =>
    success_text = strip(Heading(AnswerPage(reply)))

(* C29: no two iterations of the registration test in one run register    *)
(* with the same address, in one process or in parallel processes.         *)
C29_AddressesDiffer ==
  \A i, j \in DOMAIN mails : i # j => mails[i].email # mails[j].email

\* the components constructed for property prop of object o
Constructed(o, prop) ==
  {k \in DOMAIN insts : insts[k].owner = o /\ insts[k].cls = ClassOf(prop)}

(* C22: on one CommonComponents object no component exists before the      *)
(* first access to its property, every access returns the instance the     *)
(* first access returned, and every component holds the one ElementUtil    *)
(* the CommonComponents object constructed.                                *)
C22_LazyMemoizedShared ==
  /\ \A o \in DOMAIN ccs : \A prop \in Properties :
       /\ firsts[o][prop] = 0 => Constructed(o, prop) = {}
       /\ firsts[o][prop] # 0 => Constructed(o, prop) = {firsts[o][prop]}
  /\ access.obj # 0 => access.ret = firsts[access.obj][access.prop]
  /\ \A k \in DOMAIN insts :
       /\ insts[k].util = ccs[insts[k].owner].util
       /\ \A o \in DOMAIN ccs : ccs[o].util = insts[k].util => o = insts[k].owner

\* an object whose three components exist while a second object has none,
\* read again after the first access
C22_Witness ==
  /\ Len(ccs) = 2
  /\ \A prop \in Properties : firsts[1][prop] # 0
  /\ \A prop \in Properties : firsts[2][prop] = 0
  /\ Len(insts) = 3
  /\ access.obj = 1 /\ access.ret # Len(insts)

\* the version asked for is one of the special values, whatever its case
SpecialAsked ==
  oargs.version \in { <<"latest">>, <<"LATEST">>, <<"Default">>, <<"Auto">>, <<>> }

OptionsBuilt == oargs.kind # NoneVal

(* C23 as stated: the options object carries an explicit version exactly   *)
(* when remote is true and the version is not a special value; with a      *)
(* special value, or with remote false, neither a version nor the remote   *)
(* capability block is set.                                                *)
C23_NoBlockWithoutVersion ==
  OptionsBuilt =>
    /\ options_built.browser_version # NoneVal <=> (oargs.remote /\ ~SpecialAsked)
    /\ (SpecialAsked \/ ~oargs.remote) =>
         (options_built.browser_version = NoneVal /\ options_built.selenoid = {})

(* C23 amended: the explicit version is carried exactly when remote is     *)
(* true and the version is not a special value, and it is the version      *)
(* asked for; the remote capability block is set exactly when remote is    *)
(* true, with a special version as well.                                   *)
C23_VersionAndBlock ==
  OptionsBuilt =>
    /\ options_built.browser_version # NoneVal <=> (oargs.remote /\ ~SpecialAsked)
    /\ options_built.browser_version # NoneVal => options_built.browser_version = oargs.version
    /\ options_built.selenoid # {} <=> oargs.remote
    /\ options_built.browserName # NoneVal <=> oargs.remote

\* a remote session asked for with a special value written in capitals
C23_Witness ==
  /\ OptionsBuilt
  /\ oargs.remote
  /\ oargs.version = <<"LATEST">>
  /\ options_built.browser_version = NoneVal
  /\ options_built.selenoid # {}

(* C24: in a run with worker processes only the controller sets the        *)
(* timestamped report path and only the controller copies the report to    *)
(* latest.html, and it copies only when the timestamped report exists; no  *)
(* worker sets the path or writes latest.html.                             *)
C24_ControllerOnly ==
  /\ \A w \in Workers : ~pconf[w].set_path
  /\ \A w \in Workers : pconf[w].latest = "none"
  /\ report_files.tried_by \subseteq {Controller}
  /\ report_files.latest_by \subseteq {Controller}
  /\ ~report_files.early
  /\ report_files.tried_by # {} => report_files.stamped
  /\ pconf[Controller].set_path <=>
       (html_plugin /\ pconf[Controller].phase # "new")

\* the run is over, both workers were configured with the inherited path
\* and unconfigured, and the controller copied the report
C24_Witness ==
  /\ \A p \in Processes : pconf[p].phase = "done"
  /\ \A w \in Workers : pconf[w].htmlpath = "report_stamped.html"
  /\ report_files.stamped
  /\ report_files.latest_by = {Controller}

(* C21: with the flash flag set, every element a single lookup or a plural *)
(* lookup resolved has been highlighted: a lookup that returned elements   *)
(* has run the highlight script.                                           *)
C21_ResolvedIsHighlighted ==
  (/\ do_flash
   /\ call.op \in {"get_element", "get_elements"}
   /\ res.err = NoError
   /\ res.elems # <<>>) => "execute_script" \in issued

====
